---- MODULE Spec2Model ----
(***************************************************************************)
(* grocery-price-comparator: the product reconciliation engine of          *)
(* src/utils.py (price parser, quantity extractor, unit normalizer,        *)
(* relevance classifier, name parser, similarity grouper, orchestrator).   *)
(*                                                                         *)
(* Text is a sequence of one-character strings, so that the regular        *)
(* expressions, splits and substring tests of the source are computed on   *)
(* the characters and not assumed.  Numbers that are floats in the source  *)
(* are exact rationals <<numerator, denominator>> in lowest terms.         *)
(***************************************************************************)
EXTENDS Integers, Sequences, FiniteSets, TLC

(***************************************************************************)
(* Characters                                                              *)
(***************************************************************************)
UpperSeq ==
  <<"A","B","C","D","E","F","G","H","I","J","K","L","M",
    "N","O","P","Q","R","S","T","U","V","W","X","Y","Z">>
LowerSeq ==
  <<"a","b","c","d","e","f","g","h","i","j","k","l","m",
    "n","o","p","q","r","s","t","u","v","w","x","y","z">>
DigitSeq == <<"0","1","2","3","4","5","6","7","8","9">>

Range(f) == {f[x] : x \in DOMAIN f}
DigitCh == Range(DigitSeq)
\* \s of the re module, restricted to the white space the names contain
SpaceCh == {" "}
\* \w of the re module (ASCII part)
WordCh == Range(UpperSeq) \cup Range(LowerSeq) \cup DigitCh \cup {"_"}

\* str.lower() on one character
LowerChar(c) ==
  IF c \in Range(UpperSeq)
    THEN LowerSeq[CHOOSE k \in DOMAIN UpperSeq : UpperSeq[k] = c]
    ELSE c
\* str.lower()
Lower(s) == [i \in DOMAIN s |-> LowerChar(s[i])]

\* int(c) for a digit character
DigitVal(c) == (CHOOSE k \in DOMAIN DigitSeq : DigitSeq[k] = c) - 1

(***************************************************************************)
(* Rationals: the floats of the source, kept exact                         *)
(***************************************************************************)
RECURSIVE Gcd(_, _)
Gcd(a, b) == IF b = 0 THEN a ELSE Gcd(b, a % b)
\* n/d in lowest terms with a positive denominator
Rat(n, d) ==
  LET s == IF d < 0 THEN -1 ELSE 1
      g == Gcd(IF n < 0 THEN -n ELSE n, IF d < 0 THEN -d ELSE d)
  IN  IF n = 0 THEN <<0, 1>> ELSE <<(s * n) \div g, (s * d) \div g>>
RAdd(a, b) == Rat(a[1] * b[2] + b[1] * a[2], a[2] * b[2])
RMul(a, b) == Rat(a[1] * b[1], a[2] * b[2])
RDiv(a, b) == Rat(a[1] * b[2], a[2] * b[1])
RLt(a, b) == a[1] * b[2] < b[1] * a[2]
RLe(a, b) == a[1] * b[2] <= b[1] * a[2]
RMax(a, b) == IF RLt(a, b) THEN b ELSE a
RMin(a, b) == IF RLt(b, a) THEN b ELSE a

\* None of the source, where a text or a number is expected
None == <<"None">>
\* None of the source, where a category label is expected
NoCategory == "None"

(***************************************************************************)
(* Text helpers: str.find / in / startswith / split / strip / join          *)
(***************************************************************************)
\* s[i:] (1-based i)
\* t occurs in s at position i
OccursAt(t, s, i) ==
  /\ i >= 1
  /\ i + Len(t) - 1 <= Len(s)
  /\ \A k \in 1..Len(t) : s[i + k - 1] = t[k]
\* t in s
Contains(s, t) == \E i \in 1..(Len(s) + 1) : OccursAt(t, s, i)
\* s.find(t), 0-based as in the source, -1 when absent
Find(s, t) ==
  IF Contains(s, t)
    THEN (CHOOSE i \in 1..(Len(s) + 1) :
            /\ OccursAt(t, s, i)
            /\ \A j \in 1..(i - 1) : ~OccursAt(t, s, j)) - 1
    ELSE -1
\* s.startswith(t)
StartsWith(s, t) == OccursAt(t, s, 1)

\* s.split(): the maximal runs of non-space characters
RECURSIVE SplitWs(_, _, _)
SplitWs(s, i, cur) ==
  IF i > Len(s)
    THEN IF cur = <<>> THEN <<>> ELSE <<cur>>
    ELSE IF s[i] \in SpaceCh
           THEN (IF cur = <<>> THEN <<>> ELSE <<cur>>) \o SplitWs(s, i + 1, <<>>)
           ELSE SplitWs(s, i + 1, Append(cur, s[i]))
Split(s) == SplitWs(s, 1, <<>>)

\* s.strip()
Strip(s) ==
  LET kept == {i \in DOMAIN s : s[i] \notin SpaceCh}
  IN  IF kept = {} THEN <<>>
      ELSE SubSeq(s, CHOOSE i \in kept : \A j \in kept : i <= j,
                     CHOOSE i \in kept : \A j \in kept : j <= i)

\* ' '.join(words)
RECURSIVE Join(_)
Join(ws) ==
  IF ws = <<>> THEN <<>>
  ELSE IF Len(ws) = 1 THEN ws[1]
  ELSE ws[1] \o <<" ">> \o Join(Tail(ws))

(***************************************************************************)
(* The re module: a backtracking matcher.  A pattern is a sequence of      *)
(* nodes; ReMatch tries the alternatives in the order the re module does     *)
(* (greedy before shorter, lazy before longer, left alternative first) and *)
(* returns the first full match: [e |-> position after the match,          *)
(* g |-> the groups as <<first, past-last>> pairs], e = 0 for no match.    *)
(***************************************************************************)
In(S) == [k |-> "in", s |-> S]            \* [...]
NotIn(S) == [k |-> "notin", s |-> S]      \* [^...]
AnyCh == [k |-> "any"]                    \* .
Lit(t) == [k |-> "lit", t |-> t]          \* literal text
Seq_(rs) == [k |-> "seq", rs |-> rs]      \* (?:r1 r2 ...)
Alt(rs) == [k |-> "alt", rs |-> rs]       \* r1|r2|...
Star(r) == [k |-> "star", r |-> r]        \* r*
LazyStar(r) == [k |-> "lazy", r |-> r]    \* r*?
Opt(r) == [k |-> "alt", rs |-> <<r, [k |-> "seq", rs |-> <<>>]>>]   \* r?
Plus(r) == [k |-> "seq", rs |-> <<r, [k |-> "star", r |-> r]>>]     \* r+
Grp(n, r) == [k |-> "grp", n |-> n, r |-> r]   \* (r), group number n
WordB == [k |-> "wordb"]                  \* \b
NotAhead(r) == [k |-> "notahead", r |-> r]     \* (?!r)
NotBehind(r, w) == [k |-> "notbehind", r |-> r, w |-> w]  \* (?<!r), r of width w

NoMatch == [e |-> 0, g |-> <<>>]
\* no pattern of the source has more than three groups
NoGroups == <<<<0, 0>>, <<0, 0>>, <<0, 0>>>>

IsWordAt(s, i) == i >= 1 /\ i <= Len(s) /\ s[i] \in WordCh
AtWordB(s, i) == IsWordAt(s, i - 1) # IsWordAt(s, i)

\* one character against a one-character node
CharOk(r, c) ==
  CASE r.k = "in" -> c \in r.s
    [] r.k = "notin" -> c \notin r.s
    [] r.k = "any" -> TRUE
\* how many characters from position i on a one-character node matches in a row
RunLen(r, s, i) ==
  CHOOSE n \in 0..(Len(s) - i + 1) :
    /\ \A j \in i..(i + n - 1) : CharOk(r, s[j])
    /\ (i + n > Len(s) \/ ~CharOk(r, s[i + n]))

\* Every repetition of the source's patterns repeats a one-character node
\* (\d, \s, ., a letter): r* takes the longest run first and gives characters
\* back one at a time (Longest), r*? takes none first and then one more at a
\* time (Shortest).
RECURSIVE ReMatch(_, _, _, _)
RECURSIVE Longest(_, _, _, _, _)
RECURSIVE Shortest(_, _, _, _, _, _)
ReMatch(st, s, i, g) ==
  IF Len(st) = 0 THEN [e |-> i, g |-> g]
  ELSE
    LET r == Head(st)
        rest == Tail(st)
    IN CASE r.k \in {"in", "notin", "any"} ->
              IF i <= Len(s) /\ CharOk(r, s[i]) THEN ReMatch(rest, s, i + 1, g) ELSE NoMatch
         [] r.k = "lit" ->
              IF OccursAt(r.t, s, i) THEN ReMatch(rest, s, i + Len(r.t), g) ELSE NoMatch
         [] r.k = "seq" -> ReMatch(r.rs \o rest, s, i, g)
         [] r.k = "alt" ->
              IF Len(r.rs) = 0 THEN NoMatch
              ELSE LET first == ReMatch(<<Head(r.rs)>> \o rest, s, i, g)
                   IN  IF first.e # 0 THEN first
                       ELSE ReMatch(<<[k |-> "alt", rs |-> Tail(r.rs)]>> \o rest, s, i, g)
         [] r.k = "star" -> Longest(rest, s, i, g, RunLen(r.r, s, i))
         [] r.k = "lazy" -> Shortest(rest, s, i, g, 0, RunLen(r.r, s, i))
         [] r.k = "grp" ->
              ReMatch(<<[k |-> "open", n |-> r.n], r.r, [k |-> "close", n |-> r.n]>> \o rest,
                    s, i, g)
         [] r.k = "open" ->
              ReMatch(rest, s, i, [g EXCEPT ![r.n] = <<-i, 0>>])
         [] r.k = "close" ->
              ReMatch(rest, s, i, [g EXCEPT ![r.n] = <<-(g[r.n][1]), i>>])
         [] r.k = "wordb" ->
              IF AtWordB(s, i) THEN ReMatch(rest, s, i, g) ELSE NoMatch
         [] r.k = "notahead" ->
              IF ReMatch(<<r.r>>, s, i, g).e = 0 THEN ReMatch(rest, s, i, g) ELSE NoMatch
         [] r.k = "notbehind" ->
              IF i - r.w >= 1 /\ ReMatch(<<r.r>>, s, i - r.w, g).e = i
                THEN NoMatch ELSE ReMatch(rest, s, i, g)
Longest(rest, s, i, g, n) ==
  LET m == ReMatch(rest, s, i + n, g)
  IN  IF m.e # 0 \/ n = 0 THEN m ELSE Longest(rest, s, i, g, n - 1)
Shortest(rest, s, i, g, n, max) ==
  LET m == ReMatch(rest, s, i + n, g)
  IN  IF m.e # 0 \/ n = max THEN m ELSE Shortest(rest, s, i, g, n + 1, max)

\* re.search(p, s): the leftmost match, [b |-> start, e |-> end, g |-> groups],
\* b = 0 for None
RECURSIVE SearchFrom(_, _, _)
SearchFrom(p, s, i) ==
  IF i > Len(s) + 1 THEN [b |-> 0, e |-> 0, g |-> <<>>]
  ELSE LET m == ReMatch(<<p>>, s, i, NoGroups)
       IN  IF m.e # 0 THEN [b |-> i, e |-> m.e, g |-> m.g]
           ELSE SearchFrom(p, s, i + 1)
Search(p, s) == SearchFrom(p, s, 1)
\* match.group(n), None for a group that did not take part
Group(s, m, n) ==
  IF m.g[n][2] = 0 THEN None ELSE SubSeq(s, m.g[n][1], m.g[n][2] - 1)

\* re.sub(p, rep, s): every non-overlapping match, left to right, replaced
RECURSIVE SubFrom(_, _, _, _)
SubFrom(p, rep, s, i) ==
  IF i > Len(s) THEN <<>>
  ELSE LET m == ReMatch(<<p>>, s, i, NoGroups)
       IN  IF m.e > i THEN rep \o SubFrom(p, rep, s, m.e)
           ELSE <<s[i]>> \o SubFrom(p, rep, s, i + 1)
Sub(p, rep, s) == SubFrom(p, rep, s, 1)

(***************************************************************************)
(* Literal texts of the source                                             *)
(***************************************************************************)
(***************************************************************************)
(* float(text): None when the source would raise ValueError                *)
(***************************************************************************)
RECURSIVE DigitsVal(_)
DigitsVal(ds) ==
  IF ds = <<>> THEN 0 ELSE 10 * DigitsVal(SubSeq(ds, 1, Len(ds) - 1)) + DigitVal(ds[Len(ds)])
RECURSIVE Pow10(_)
Pow10(n) == IF n = 0 THEN 1 ELSE 10 * Pow10(n - 1)
\* the decimal numerals float() accepts among the texts the patterns capture
Float(t) ==
  LET u == Strip(t)
      dots == {i \in DOMAIN u : u[i] = "."}
      dot == IF dots = {} THEN Len(u) + 1 ELSE CHOOSE i \in dots : TRUE
      ip == SubSeq(u, 1, dot - 1)
      fp == SubSeq(u, dot + 1, Len(u))
  IN  IF \/ u = <<>>
         \/ Cardinality(dots) > 1
         \/ \E i \in DOMAIN u : u[i] \notin DigitCh \cup {"."}
         \/ Len(ip) + Len(fp) = 0
        THEN None
        ELSE Rat(DigitsVal(ip) * Pow10(Len(fp)) + DigitsVal(fp), Pow10(Len(fp)))

(***************************************************************************)
(* parse_price                                                             *)
(***************************************************************************)
Digit == In(DigitCh)
Ws == Star(In(SpaceCh))                                    \* \s*
Num == Seq_(<<Plus(Digit), Opt(Lit(<<".">>)), Star(Digit)>>)   \* \d+\.?\d*

\* str.replace(',', '')
RECURSIVE DropCommas(_)
DropCommas(s) ==
  IF s = <<>> THEN <<>>
  ELSE (IF Head(s) = "," THEN <<>> ELSE <<Head(s)>>) \o DropCommas(Tail(s))

\* (\d+\.?\d*|\d+)
parse_price(price_str) ==
  IF price_str = None \/ price_str = <<>> \/ price_str = <<"N","/","A">> THEN None
  ELSE LET clean_str == DropCommas(price_str)
           match == Search(Grp(1, Alt(<<Num, Plus(Digit)>>)), clean_str)
       IN  IF match.b # 0 THEN Float(Group(clean_str, match, 1)) ELSE None

(***************************************************************************)
(* extract_quantity                                                        *)
(***************************************************************************)
\* units_regex, its group numbered n
UnitsRegex(n) ==
  Seq_(<<Grp(n, Alt(<<Lit(<<"k","g">>), Lit(<<"k","i","l","o","g","r","a","m","s">>), Lit(<<"k","i","l","o","g","r","a","m">>), Lit(<<"g","m">>), Lit(<<"g">>),
                     Lit(<<"g","r","a","m","s">>), Lit(<<"g","r","a","m">>), Lit(<<"l">>), Lit(<<"l","i","t","r","e","s">>), Lit(<<"l","i","t","e","r","s">>),
                     Lit(<<"l","i","t","r","e">>), Lit(<<"l","i","t","e","r">>), Lit(<<"l","t","r">>), Lit(<<"m","l">>), Lit(<<"p","c","s">>),
                     Lit(<<"p","i","e","c","e","s">>), Lit(<<"p","i","e","c","e">>), Lit(<<"p","c">>), Lit(<<"p","a","c","k","s">>), Lit(<<"p","a","c","k">>),
                     Lit(<<"p","c","k">>), Lit(<<"m">>), Lit(<<"s","q","f","t">>), Lit(<<"s","q",".","f","t">>),
                     Seq_(<<Lit(<<"s","q">>), Ws, Lit(<<"f","t">>)>>)>>)),
         WordB>>)
\* \((\d+(?:-\d+)?)\s*  units_regex  \)
paren_pattern ==
  Seq_(<<Lit(<<"(">>),
         Grp(1, Seq_(<<Plus(Digit), Opt(Seq_(<<Lit(<<"-">>), Plus(Digit)>>))>>)),
         Ws, UnitsRegex(2), Lit(<<")">>)>>)

\* the list `patterns`: (pattern, is_multipack)
patterns ==
  LET \* (?:packs?|pcs|pieces?|sets?)
      PackWord ==
      Alt(<<Seq_(<<Lit(<<"p","a","c","k">>), Opt(Lit(<<"s">>))>>), Lit(<<"p","c","s">>),
            Seq_(<<Lit(<<"p","i","e","c","e">>), Opt(Lit(<<"s">>))>>), Seq_(<<Lit(<<"s","e","t">>), Opt(Lit(<<"s">>))>>)>>)
      \* \d+-\d+
      IntRange == Seq_(<<Plus(Digit), Lit(<<"-">>), Plus(Digit)>>)
      \* patterns[0]: SIZE x COUNT
      SizeXCount ==
        Seq_(<<Grp(1, Num), Ws, UnitsRegex(2), Ws, In({"x", "X"}), Ws, Grp(3, Num), WordB>>)
      \* patterns[1]: COUNT x SIZE
      CountXSize ==
        Seq_(<<Grp(1, Num), Ws, Opt(PackWord), Ws, In({"x", "X"}), Ws, Grp(2, Num), Ws,
               UnitsRegex(3), WordB>>)
      \* patterns[2]: SIZE ... COUNT; its third group is written (\ d+) in the source:
      \* a space followed by letters d
      SizeCount ==
        Seq_(<<Grp(1, Num), Ws, UnitsRegex(2),
               NotAhead(Seq_(<<Star(AnyCh), IntRange>>)),
               LazyStar(AnyCh),
               NotBehind(Lit(<<"-">>), 1),
               Grp(3, Seq_(<<Lit(<<" ">>), Plus(In({"d"}))>>)),
               NotAhead(Lit(<<"-">>)),
               Ws, PackWord, WordB>>)
      \* patterns[3]: SIZE ... pack of COUNT
      SizePackOf ==
        Seq_(<<Grp(1, Num), Ws, UnitsRegex(2), LazyStar(AnyCh), Lit(<<"p","a","c","k"," ","o","f">>), Ws,
               Grp(3, Plus(Digit)), WordB>>)
      \* patterns[4]: COUNT ... SIZE
      CountSize ==
        Seq_(<<NotBehind(Seq_(<<Digit, Lit(<<"-">>)>>), 2),
               Grp(1, Plus(Digit)),
               NotAhead(Seq_(<<Lit(<<"-">>), Digit>>)),
               Ws, PackWord, Ws, Opt(Alt(<<Lit(<<"o","f">>), Lit(<<"-">>)>>)),
               NotAhead(Seq_(<<Ws, Lit(<<"(">>)>>)),
               LazyStar(AnyCh),
               Grp(2, Num), Ws, UnitsRegex(3), WordB>>)
      \* patterns[5]: single unit, with range support
      SingleUnit ==
        Seq_(<<Grp(1, Seq_(<<Num, Opt(Seq_(<<Lit(<<"-">>), Num>>))>>)), Ws, UnitsRegex(2), WordB>>)
  IN  << <<SizeXCount, TRUE>>, <<CountXSize, TRUE>>, <<SizeCount, TRUE>>,
      <<SizePackOf, TRUE>>, <<CountSize, TRUE>>, <<SingleUnit, FALSE>> >>

\* "Normalize unit strings" of the pattern loop
NormalizeUnit(unit) ==
  IF unit \in {<<"k","g">>, <<"k","i","l","o","g","r","a","m">>, <<"k","i","l","o","g","r","a","m","s">>} THEN <<"k","g">>
  ELSE IF unit \in {<<"g","m">>, <<"g">>, <<"g","r","a","m">>, <<"g","r","a","m","s">>} THEN <<"g">>
  ELSE IF unit \in {<<"l">>, <<"l","t","r">>, <<"l","i","t","r","e">>, <<"l","i","t","e","r">>, <<"l","i","t","r","e","s">>, <<"l","i","t","e","r","s">>} THEN <<"l">>
  ELSE IF unit \in {<<"m","l">>} THEN <<"m","l">>
  ELSE IF unit \in {<<"p","c","s">>, <<"p","i","e","c","e">>, <<"p","i","e","c","e","s">>, <<"p","c">>, <<"p","c","k">>, <<"p","a","c","k">>, <<"p","a","c","k","s">>} THEN <<"p","c","s">>
  ELSE IF unit \in {<<"s","q","f","t">>, <<"s","q",".","f","t">>, <<"s","q"," ","f","t">>} THEN <<"s","q","f","t">>
  ELSE unit
\* "Normalize unit" of the parenthesis branch (pck, pack, packs pass through)
NormalizeUnitParen(unit) ==
  IF unit \in {<<"k","g">>, <<"k","i","l","o","g","r","a","m">>, <<"k","i","l","o","g","r","a","m","s">>} THEN <<"k","g">>
  ELSE IF unit \in {<<"g","m">>, <<"g">>, <<"g","r","a","m">>, <<"g","r","a","m","s">>} THEN <<"g">>
  ELSE IF unit \in {<<"l">>, <<"l","t","r">>, <<"l","i","t","r","e">>, <<"l","i","t","e","r">>, <<"l","i","t","r","e","s">>, <<"l","i","t","e","r","s">>} THEN <<"l">>
  ELSE IF unit \in {<<"m","l">>} THEN <<"m","l">>
  ELSE IF unit \in {<<"p","c","s">>, <<"p","i","e","c","e">>, <<"p","i","e","c","e","s">>, <<"p","c">>} THEN <<"p","c","s">>
  ELSE IF unit \in {<<"s","q","f","t">>, <<"s","q",".","f","t">>, <<"s","q"," ","f","t">>} THEN <<"s","q","f","t">>
  ELSE unit

\* quantity_str.split('-')
RECURSIVE SplitOn(_, _, _)
SplitOn(s, c, cur) ==
  IF s = <<>> THEN <<cur>>
  ELSE IF Head(s) = c THEN <<cur>> \o SplitOn(Tail(s), c, <<>>)
  ELSE SplitOn(Tail(s), c, Append(cur, Head(s)))

\* the value of a quantity text with a range read as its first number (not
\* the source's)
RangeFirst(quantity_str) ==
  IF Contains(quantity_str, <<"-">>)
    THEN Float(SplitOn(quantity_str, "-", <<>>)[1])
    ELSE Float(quantity_str)

\* the value of a quantity text: the midpoint of a range, else float();
\* None when the source raises ValueError
RangeValue(quantity_str) ==
  IF Contains(quantity_str, <<"-">>)
    THEN LET parts == SplitOn(quantity_str, "-", <<>>)
             a == Float(parts[1])
             b == Float(parts[2])
         IN  IF a = None \/ b = None THEN None ELSE RDiv(RAdd(a, b), <<2, 1>>)
    ELSE Float(quantity_str)

NoQuantity == [value |-> None, unit |-> None]

\* the body of the pattern loop for one match: the value and unit, None for
\* the value when the try block raises
PatternValue(name, match, is_multipack) ==
  LET g1 == Group(name, match, 1)
      g2 == Group(name, match, 2)
      g3 == Group(name, match, 3)
      \* the units the multipack branch reads as SIZE x COUNT
      SizeUnits ==
        {<<"k","g">>, <<"g">>, <<"l">>, <<"m","l">>, <<"m">>, <<"l","t","r">>, <<"l","i","t","r","e">>, <<"l","i","t","e","r">>, <<"g","r","a","m">>, <<"g","r","a","m","s">>,
         <<"k","i","l","o","g","r","a","m">>, <<"k","i","l","o","g","r","a","m","s">>}
  IN  IF is_multipack
        THEN LET size_or_count_1 == Float(g1)
             IN  IF size_or_count_1 = None THEN NoQuantity
                 ELSE IF g2 \in SizeUnits
                   THEN LET size == size_or_count_1
                            count == Float(g3)
                        IN  IF count = None THEN NoQuantity
                            ELSE [value |-> IF size = count THEN size ELSE RMul(size, count),
                                  unit |-> g2]
                   ELSE LET count == size_or_count_1
                            size == Float(g2)
                        IN  IF size = None THEN NoQuantity
                            ELSE [value |-> IF count = size THEN size ELSE RMul(count, size),
                                  unit |-> g3]
        ELSE [value |-> RangeValue(g1), unit |-> g2]

\* the pattern loop without the check for 'approx' (not the source's)
RECURSIVE PatternLoopNoApprox(_, _)
PatternLoopNoApprox(name, k) ==
  IF k > Len(patterns) THEN NoQuantity
  ELSE LET match == Search(patterns[k][1], name)
           v == PatternValue(name, match, patterns[k][2])
       IN  IF match.b = 0 \/ v.value = None THEN PatternLoopNoApprox(name, k + 1)
           ELSE [value |-> v.value, unit |-> NormalizeUnit(v.unit)]

RECURSIVE PatternLoop(_, _)
PatternLoop(name, k) ==
  IF k > Len(patterns) THEN NoQuantity
  ELSE LET pattern == patterns[k][1]
           is_multipack == patterns[k][2]
           match == Search(pattern, name)
       IN  IF match.b = 0 THEN PatternLoop(name, k + 1)
           ELSE IF is_multipack /\ Contains(name, <<"a","p","p","r","o","x">>) THEN PatternLoop(name, k + 1)
           ELSE LET v == PatternValue(name, match, is_multipack)
                IN  IF v.value = None THEN PatternLoop(name, k + 1)
                    ELSE [value |-> v.value, unit |-> NormalizeUnit(v.unit)]

extract_quantity(product_name) ==
  IF product_name = <<>> THEN NoQuantity
  ELSE LET name == Lower(product_name)
           paren_match == Search(paren_pattern, name)
           value == RangeValue(Group(name, paren_match, 1))
       IN  IF paren_match.b # 0 /\ value # None
             THEN [value |-> value, unit |-> NormalizeUnitParen(Group(name, paren_match, 2))]
             ELSE PatternLoop(name, 1)

(***************************************************************************)
(* normalize_quantity                                                      *)
(***************************************************************************)
\* normalization to grams and millilitres, as the docstring has it (not the
\* source's)
NormalizeToBase(value, unit) ==
  IF value = None \/ value = <<0, 1>> \/ unit = None \/ unit = <<>> THEN <<0, 1>>
  ELSE IF Lower(unit) \in {<<"k","g">>, <<"l">>, <<"l","t","r">>, <<"l","i","t","r","e">>, <<"l","i","t","e","r">>}
    THEN RMul(value, <<1000, 1>>)
  ELSE value

normalize_quantity(value, unit) ==
  IF value = None \/ value = <<0, 1>> \/ unit = None \/ unit = <<>> THEN <<0, 1>>
  ELSE LET u == Lower(unit)
       IN  IF u = <<"k","g">> THEN value
           ELSE IF u = <<"g">> THEN RDiv(value, <<1000, 1>>)
           ELSE IF u \in {<<"l">>, <<"l","t","r">>, <<"l","i","t","r","e">>, <<"l","i","t","e","r">>} THEN value
           ELSE IF u = <<"m","l">> THEN RDiv(value, <<1000, 1>>)
           ELSE value

(***************************************************************************)
(* jaccard_similarity                                                      *)
(***************************************************************************)
\* qty_patterns
qty_patterns ==
  LET QtyPattern1 ==
        Seq_(<<Num, Ws, In({"x", "X"}), Ws, Num, Ws,
               Opt(Grp(1, Alt(<<Lit(<<"k","g">>), Lit(<<"g">>), Lit(<<"l">>), Lit(<<"m","l">>), Lit(<<"l","t","r">>)>>))), WordB>>)
      QtyPattern2 ==
        Seq_(<<Num, Ws, Grp(1, Alt(<<Lit(<<"k","g">>), Lit(<<"g">>), Lit(<<"l">>), Lit(<<"m","l">>), Lit(<<"l","t","r">>)>>)),
               Ws, In({"x", "X"}), Ws, Num, WordB>>)
      \* the last alternative is written sq\\.?\\s*ft in a raw string: a backslash,
      \* any one character or none, a backslash, letters s
      QtyPattern3 ==
        Seq_(<<Num, Ws,
               Grp(1, Alt(<<Lit(<<"k","g">>), Seq_(<<Lit(<<"k","i","l","o","g","r","a","m">>), Opt(Lit(<<"s">>))>>), Lit(<<"g">>),
                            Seq_(<<Lit(<<"g","r","a","m">>), Opt(Lit(<<"s">>))>>), Lit(<<"l">>), Lit(<<"l","t","r">>),
                            Seq_(<<Lit(<<"l","i","t","r","e">>), Opt(Lit(<<"s">>))>>),
                            Seq_(<<Lit(<<"l","i","t","e","r">>), Opt(Lit(<<"s">>))>>), Lit(<<"m","l">>), Lit(<<"p","c","s">>),
                            Seq_(<<Lit(<<"p","i","e","c","e">>), Opt(Lit(<<"s">>))>>), Lit(<<"p","c">>),
                            Seq_(<<Lit(<<"p","a","c","k">>), Opt(Lit(<<"s">>))>>), Lit(<<"p","c","k">>), Lit(<<"s","q","f","t">>),
                            Seq_(<<Lit(<<"s","q">>), Lit(<<"\\">>), Opt(AnyCh), Lit(<<"\\">>),
                                   Star(In({"s"})), Lit(<<"f","t">>)>>)>>)),
               WordB>>)
      QtyPattern4 == Seq_(<<WordB, In({"x", "X"}), Ws, Plus(Digit), WordB>>)
      QtyPattern5 ==
        Seq_(<<WordB, Grp(1, Alt(<<Lit(<<"p","a","c","k"," ","o","f">>), Lit(<<"s","e","t"," ","o","f">>), Lit(<<"b","o","x"," ","o","f">>)>>)), Ws,
               Plus(Digit), WordB>>)
  IN  <<QtyPattern1, QtyPattern2, QtyPattern3, QtyPattern4, QtyPattern5>>

RECURSIVE StripQty(_, _)
StripQty(s, k) ==
  IF k > Len(qty_patterns) THEN s ELSE StripQty(Sub(qty_patterns[k], <<" ">>, s), k + 1)

\* the word set of a name; [^a-z0-9\\s] of a raw string is everything but
\* a-z, 0-9, the backslash and s
Tokens(name) ==
  LET SpecialChar == NotIn(Range(LowerSeq) \cup DigitCh \cup {"\\", "s"})
  IN  Range(Split(Sub(SpecialChar, <<" ">>, StripQty(Lower(name), 1))))

jaccard_similarity(name1, name2) ==
  LET tokens1 == Tokens(name1)
      tokens2 == Tokens(name2)
  IN  IF tokens1 = {} \/ tokens2 = {} THEN <<0, 1>>
      ELSE Rat(Cardinality(tokens1 \cap tokens2), Cardinality(tokens1 \cup tokens2))

(***************************************************************************)
(* The category table: the defaults of load_category_config                *)
(***************************************************************************)
\* CATEGORIES, in the order of the dict
CATEGORIES ==
  << <<"Fresh Produce", <<<<"o","n","i","o","n">>, <<"p","o","t","a","t","o">>, <<"t","o","m","a","t","o">>, <<"c","a","r","r","o","t">>, <<"a","p","p","l","e">>, <<"b","a","n","a","n","a">>, <<"g","a","r","l","i","c">>>> >>,
     <<"Dairy & Eggs", <<<<"m","i","l","k">>, <<"e","g","g">>, <<"c","h","e","e","s","e">>, <<"y","o","g","u","r","t">>>> >>,
     <<"Meat & Seafood", <<<<"c","h","i","c","k","e","n">>, <<"b","e","e","f">>, <<"f","i","s","h">>>> >>,
     <<"Bakery", <<<<"b","r","e","a","d">>>> >>,
     <<"Snacks & Sweets", <<<<"c","h","i","p">>, <<"c","o","o","k","i","e">>, <<"c","h","o","c","o","l","a","t","e">>>> >>,
     <<"Beverages", <<<<"w","a","t","e","r">>, <<"j","u","i","c","e">>, <<"s","o","d","a">>>> >>,
     <<"Pantry", <<<<"r","i","c","e">>, <<"p","a","s","t","a">>, <<"o","i","l">>>> >> >>
FRESH_DISQUALIFIERS == <<<<"c","h","i","p">>, <<"p","o","w","d","e","r">>, <<"s","a","u","c","e">>, <<"p","a","s","t","e">>, <<"j","a","m">>, <<"p","i","c","k","l","e">>>>

(***************************************************************************)
(* classify_text                                                           *)
(***************************************************************************)
\* re.search(r'\b' + re.escape(w) + r'\b', text) is not None
HasWord(text, w) == Search(Seq_(<<WordB, Lit(w), WordB>>), text).b # 0
\* no name counts as processed (not the source's)
NeverProcessed(text) == FALSE
\* any(dq in text for dq in FRESH_DISQUALIFIERS)
IsProcessed(text) ==
  \E k \in DOMAIN FRESH_DISQUALIFIERS : Contains(text, FRESH_DISQUALIFIERS[k])

RECURSIVE ClassifyFrom(_, _, _)
ClassifyFrom(text, is_processed, c) ==
  IF c > Len(CATEGORIES) THEN NoCategory
  ELSE LET category == CATEGORIES[c][1]
           keywords == CATEGORIES[c][2]
       IN  IF category = "Fresh Produce" /\ is_processed
             THEN ClassifyFrom(text, is_processed, c + 1)
           ELSE IF \E k \in DOMAIN keywords : HasWord(text, keywords[k])
             THEN category
           ELSE ClassifyFrom(text, is_processed, c + 1)

classify_text(text) ==
  IF text = None \/ text = <<>> THEN NoCategory
  ELSE LET t == Lower(text) IN ClassifyFrom(t, IsProcessed(t), 1)

(***************************************************************************)
(* calculate_relevance_score                                               *)
(***************************************************************************)
\* noise_pat
noise_pat ==
  Alt(<<Seq_(<<WordB,
               Grp(1, Seq_(<<Plus(Digit), Ws,
                             Grp(2, Alt(<<Lit(<<"k","g">>), Lit(<<"g">>), Lit(<<"l">>), Lit(<<"m","l">>), Lit(<<"p","c","s">>),
                                          Lit(<<"p","a","c","k">>), Lit(<<"p","k">>), Lit(<<"b","u","n","c","h">>), Lit(<<"g","r","a","m","s">>),
                                          Lit(<<"k","i","l","o","g","r","a","m">>), Lit(<<"o","z">>), Lit(<<"c","m">>), Lit(<<"m","m">>),
                                          Lit(<<"m","t","r">>)>>))>>)),
               WordB>>),
        In({"(", ")", "-", ",", "+"})>>)

\* the position below which a whole-word term counts as near the start
NearStart == 20

\* step 4 with a term inside a larger word counted as a whole word (not the
\* source's)
RECURSIVE TermScoreAnyMatch(_, _, _)
TermScoreAnyMatch(name, query_terms, i) ==
  IF i >= Len(query_terms) THEN <<0, 1>>
  ELSE LET term == query_terms[i + 1]
           this == IF Contains(name, term)
                     THEN IF Find(name, term) < NearStart
                            THEN Rat(15, 100 * (i + 1))
                            ELSE Rat(5, 100)
                     ELSE <<0, 1>>
       IN  RAdd(this, TermScoreAnyMatch(name, query_terms, i + 1))

\* step 4 for the terms from index i (0-based, as enumerate gives it) on
RECURSIVE TermScore(_, _, _)
TermScore(name, query_terms, i) ==
  IF i >= Len(query_terms) THEN <<0, 1>>
  ELSE LET term == query_terms[i + 1]
           is_whole_word == HasWord(name, term)
           this == IF is_whole_word
                     THEN IF Find(name, term) < NearStart
                            THEN Rat(15, 100 * (i + 1))
                            ELSE Rat(5, 100)
                     ELSE IF Contains(name, term) THEN Rat(-10, 100)
                     ELSE <<0, 1>>
       IN  RAdd(this, TermScore(name, query_terms, i + 1))

\* the score before the final clamp
RawScore(product_name, query_in) ==
  LET name == Lower(product_name)
      query == Lower(query_in)
      query_terms == Split(query)
      all_terms_as_words == \A k \in DOMAIN query_terms : HasWord(name, query_terms[k])
      exact_name == IF name = query THEN Rat(5, 10) ELSE <<0, 1>>
      starts == IF StartsWith(name, query) THEN Rat(3, 10) ELSE <<0, 1>>
      q_cat == classify_text(query)
      p_cat == classify_text(name)
      is_processed == IsProcessed(name)
      clean_name == Join(Split(Strip(Sub(noise_pat, <<>>, name))))
      category ==
        IF q_cat = "Fresh Produce"
          THEN IF is_processed THEN Rat(-5, 10)
               ELSE IF p_cat = "Fresh Produce" /\ all_terms_as_words
                 THEN RAdd(Rat(2, 10), IF clean_name = query THEN Rat(4, 10) ELSE <<0, 1>>)
               ELSE <<0, 1>>
          ELSE IF q_cat # NoCategory /\ p_cat = q_cat /\ all_terms_as_words THEN Rat(2, 10)
          ELSE <<0, 1>>
  IN  RAdd(RAdd(RAdd(exact_name, starts), category), TermScore(name, query_terms, 0))

\* the score without the final clamp (not the source's)
UnclampedScore(product_name, query) ==
  IF Split(Lower(query)) = <<>> THEN <<0, 1>> ELSE RawScore(product_name, query)

calculate_relevance_score(product_name, query) ==
  IF Split(Lower(query)) = <<>> THEN <<0, 1>>
  ELSE RMax(<<0, 1>>, RMin(RawScore(product_name, query), <<1, 1>>))


(***************************************************************************)
(* The inputs the model draws: raw listings as the store adapters and the  *)
(* /match request deliver them.  A listing is [name, price]; image_url and *)
(* product_url are carried through by the source unread and are left out.  *)
(***************************************************************************)
\* the names of the listings
N ==
  [
    AlmaraiMilk |-> <<"A","l","m","a","r","a","i"," ","M","i","l","k"," ","1","L">>,
    AlmaraiFreshMilk |-> <<"A","l","m","a","r","a","i"," ","F","r","e","s","h"," ","M","i","l","k"," ","1"," ","L","i","t","r","e">>,
    NestleMilk1L |-> <<"N","e","s","t","l","e"," ","M","i","l","k"," ","1","L">>,
    NestleMilk2L |-> <<"N","e","s","t","l","e"," ","M","i","l","k"," ","2","L">>,
    OnionsRed |-> <<"O","n","i","o","n","s"," ","R","e","d"," ","1","k","g">>,
    NoResults |-> <<"N","o"," ","r","e","s","u","l","t","s"," ","f","o","u","n","d">>,
    ErrorTimeout |-> <<"E","r","r","o","r",":"," ","t","i","m","e","o","u","t">>,
    AinCup |-> <<"A","l"," ","A","i","n"," ","W","a","t","e","r"," ","C","u","p">>,
    AinCupBox |-> <<"A","l"," ","A","i","n"," ","W","a","t","e","r"," ","C","u","p"," ","B","o","x">>,
    AinCupBoxSet |-> <<"A","l"," ","A","i","n"," ","W","a","t","e","r"," ","C","u","p"," ","B","o","x"," ","S","e","t">>,
    CupBox |-> <<"A","i","n"," ","W","a","t","e","r"," ","C","u","p"," ","B","o","x">>,
    Only500ml |-> <<"5","0","0","m","l">> ]
\* a name that is a JSON list instead of text
ListName == <<"[list]">>
\* the price texts of the listings
P ==
  [
    AED10 |-> <<"A","E","D"," ","1","0">>,
    plain12 |-> <<"1","2">> ]
\* the queries
Q ==
  [
    milk |-> <<"m","i","l","k">>,
    nestle |-> <<"n","e","s","t","l","e">>,
    onion |-> <<"o","n","i","o","n">>,
    red_onion |-> <<"r","e","d"," ","o","n","i","o","n">>,
    peas |-> <<"p","e","a","s">>,
    blank |-> <<" ", " ">> ]

\* the stores /search fetches (search, app.py)
Stores == {"carrefour", "noon", "amazon", "talabat", "lulu"}

IsText(name) == name # None /\ name # ListName

\* the listings the requests of the grouping specification carry
GroupListings ==
  { [name |-> N.NestleMilk1L, price |-> P.AED10],
    [name |-> N.NestleMilk1L, price |-> P.plain12],
    [name |-> N.NestleMilk1L, price |-> <<"N","/","A">>],
    [name |-> N.NestleMilk2L, price |-> P.AED10],
    [name |-> N.AlmaraiMilk, price |-> P.plain12],
    [name |-> N.AlmaraiFreshMilk, price |-> P.AED10] }
\* the listings the requests of the orchestrator specification carry
MatchListings ==
  { [name |-> N.NestleMilk1L, price |-> P.AED10],
    [name |-> N.NestleMilk1L, price |-> <<"N","/","A">>],
    [name |-> N.AlmaraiMilk, price |-> P.plain12],
    [name |-> N.OnionsRed, price |-> P.plain12],
    [name |-> N.NoResults, price |-> <<"N","/","A">>],
    [name |-> N.ErrorTimeout, price |-> <<"N","/","A">>],
    [name |-> <<>>, price |-> P.plain12],
    [name |-> None, price |-> P.plain12],
    [name |-> ListName, price |-> P.plain12] }

\* the parsed listings direct calls of group_parsed_products carry: one
\* name with different brands and quantities
ParsedListings ==
  { [original_name |-> N.NestleMilk1L, brand |-> <<"N","e","s","t","l","e">>, quantity_value |-> Rat(1, 1),
     quantity_unit |-> <<"l">>, price |-> P.plain12, store |-> "carrefour"],
    [original_name |-> N.NestleMilk1L, brand |-> <<"n","e","s","t","l","e">>, quantity_value |-> Rat(1, 1),
     quantity_unit |-> <<"l">>, price |-> P.AED10, store |-> "noon"],
    [original_name |-> N.NestleMilk1L, brand |-> <<"N","e","s","t","l","e">>, quantity_value |-> Rat(2, 1),
     quantity_unit |-> <<"l">>, price |-> P.AED10, store |-> "noon"],
    [original_name |-> N.NestleMilk1L, brand |-> <<"N","e","s","t","l","e">>, quantity_value |-> None,
     quantity_unit |-> None, price |-> P.plain12, store |-> "amazon"],
    [original_name |-> N.NestleMilk1L, brand |-> <<"N","e","s","t","l","e">>, quantity_value |-> Rat(1, 1),
     quantity_unit |-> <<"l">>, price |-> <<"N","/","A">>, store |-> "amazon"] }

\* the words of the names, and the queries, calculate_relevance_score is
\* called with
\* the words of the names that are scored
W ==
  [
    Onion |-> <<"O","n","i","o","n">>,
    Onions |-> <<"O","n","i","o","n","s">>,
    Red |-> <<"R","e","d">>,
    Chips |-> <<"C","h","i","p","s">>,
    Chickpeas |-> <<"C","h","i","c","k","p","e","a","s">>,
    Dash |-> <<"-">>,
    Green |-> <<"G","r","e","e","n">>,
    Peas |-> <<"P","e","a","s">>,
    g150 |-> <<"1","5","0","g">>,
    g500 |-> <<"5","0","0","g">> ]
ScoreWords ==
  {W.Onion, W.Onions, W.Red, W.Chips, W.Chickpeas, W.Dash, W.Green, W.Peas, W.g150, W.g500}
ScoreQueries == {Q.onion, Q.red_onion, Q.peas, Q.milk, <<>>, Q.blank}

\* every text name, price text and query of the inputs
NameSeq ==
  <<N.NestleMilk1L, N.NestleMilk2L, N.AlmaraiMilk, N.AlmaraiFreshMilk, N.OnionsRed,
    N.NoResults, N.ErrorTimeout, <<>>, N.AinCup, N.AinCupBox, N.AinCupBoxSet, N.CupBox,
    N.Only500ml >>
PriceSeq == <<P.AED10, P.plain12, <<"N","/","A">>>>
QuerySeq == <<Q.milk, Q.onion, <<>>, Q.nestle>>
\* the index of x in the sequence s
IndexOf(s, x) == CHOOSE i \in DOMAIN s : s[i] = x

\* <<Op(s[1]), ..., Op(s[k])>>
RECURSIVE Tabulate(_, _, _)
Tabulate(Op(_), s, k) ==
  IF k = 0 THEN <<>>
  ELSE IF k = 1 THEN <<Op(s[1])>>
  ELSE Tabulate(Op, s, k \div 2) \o Tabulate(Op, SubSeq(s, (k \div 2) + 1, k), k - (k \div 2))

\* original_name.strip().split(' ', 1)[0].strip()
FirstWord(name) ==
  LET s == Strip(name)
      sp == {i \in DOMAIN s : s[i] = " "}
  IN  IF sp = {} THEN s
      ELSE SubSeq(s, 1, (CHOOSE i \in sp : \A j \in sp : i <= j) - 1)

\* sum(1 for term in query_terms if term in name) = len(query_terms), with
\* name = matched_name.lower() and query_terms = query.lower().split()
AllPresent(n, q) ==
  LET name == Lower(n)
      query_terms == Split(Lower(q))
      present_count == Cardinality({k \in DOMAIN query_terms : Contains(name, query_terms[k])})
  IN  present_count = Len(query_terms)

\* The text functions are computed once for each text of the inputs, and
\* looked up from then on.
\* extract_quantity(n)
QuantityTable == Tabulate(extract_quantity, NameSeq, Len(NameSeq))
QuantityOf(n) == QuantityTable[IndexOf(NameSeq, n)]
\* jaccard_similarity(a, b)
SimilarityTable ==
  Tabulate(LAMBDA a : Tabulate(LAMBDA b : jaccard_similarity(a, b), NameSeq, Len(NameSeq)),
           NameSeq, Len(NameSeq))
SimilarityOf(a, b) == SimilarityTable[IndexOf(NameSeq, a)][IndexOf(NameSeq, b)]
\* parse_price(p)
PriceTable == Tabulate(parse_price, PriceSeq, Len(PriceSeq))
PriceOf(p) == PriceTable[IndexOf(PriceSeq, p)]
\* calculate_relevance_score(name, query) with name = matched_name.lower()
RelevanceTable ==
  Tabulate(LAMBDA n : Tabulate(LAMBDA q : calculate_relevance_score(Lower(n), q),
                               QuerySeq, Len(QuerySeq)),
           NameSeq, Len(NameSeq))
RelevanceOf(n, q) == RelevanceTable[IndexOf(NameSeq, n)][IndexOf(QuerySeq, q)]
\* classify_text(q)
CategoryTable == Tabulate(classify_text, QuerySeq, Len(QuerySeq))
CategoryOf(q) == CategoryTable[IndexOf(QuerySeq, q)]
\* 'Error' in name
HasError(n) == Contains(n, <<"E","r","r","o","r">>)

(***************************************************************************)
(* parse_products_regex                                                    *)
(***************************************************************************)
\* the parsed listing, given extract_quantity(original_name)
ParseListing(product, store_name, quantity) ==
  [original_name |-> product.name,
   brand |-> FirstWord(product.name),
   quantity_value |-> quantity.value,
   quantity_unit |-> quantity.unit,
   price |-> product.price,
   store |-> store_name]

\* the loop of parse_products_regex: listings with an empty name are skipped
RECURSIVE ParseLoop(_, _)
ParseLoop(products, store_name) ==
  IF products = <<>> THEN <<>>
  ELSE (IF Head(products).name = <<>> THEN <<>>
        ELSE <<ParseListing(Head(products), store_name, QuantityOf(Head(products).name))>>)
       \o ParseLoop(Tail(products), store_name)

\* extract_quantity raises AttributeError on a name that has no lower()
ParseRaises(products) == \E i \in DOMAIN products : products[i].name = ListName

parse_products_regex(products, store_name) ==
  IF products = <<>> THEN <<>> ELSE ParseLoop(products, store_name)

(***************************************************************************)
(* group_parsed_products                                                   *)
(***************************************************************************)
\* a key that leaves the quantity out (not the source's)
BucketKeyBrandOnly(p) ==
  << IF p.brand # None /\ p.brand # <<>> THEN Lower(Strip(p.brand)) ELSE <<"u","n","k","n","o","w","n">> >>

\* key = (brand, qty_val, qty_unit)
BucketKey(p) ==
  << IF p.brand # None /\ p.brand # <<>> THEN Lower(Strip(p.brand)) ELSE <<"u","n","k","n","o","w","n">>,
     p.quantity_value, p.quantity_unit >>

\* the keys of `buckets`, in insertion order
RECURSIVE BucketKeys(_, _)
BucketKeys(parsed_products, seen) ==
  IF parsed_products = <<>> THEN seen
  ELSE LET key == BucketKey(Head(parsed_products))
       IN  BucketKeys(Tail(parsed_products),
                      IF \E k \in DOMAIN seen : seen[k] = key THEN seen ELSE Append(seen, key))

\* buckets[key]
RECURSIVE BucketItems(_, _)
BucketItems(parsed_products, key) ==
  IF parsed_products = <<>> THEN <<>>
  ELSE (IF BucketKey(Head(parsed_products)) = key THEN <<Head(parsed_products)>> ELSE <<>>)
       \o BucketItems(Tail(parsed_products), key)

\* a lower threshold (not the source's)
threshold_low == Rat(6, 10)

\* threshold = 0.8
threshold == Rat(8, 10)

\* the items with the given indexes, in index order
RECURSIVE PickItems(_, _, _)
PickItems(items, indexes, j) ==
  IF j > Len(items) THEN <<>>
  ELSE (IF j \in indexes THEN <<items[j]>> ELSE <<>>) \o PickItems(items, indexes, j + 1)

\* a clustering loop that lets a listing join when it is similar to any
\* earlier listing not yet clustered, not only to the first of the cluster
\* (not the source's)
RECURSIVE ClusterLoopAnyEarlier(_, _, _)
ClusterLoopAnyEarlier(items, i, processed_indexes) ==
  IF i > Len(items) THEN <<>>
  ELSE IF i \in processed_indexes THEN ClusterLoopAnyEarlier(items, i + 1, processed_indexes)
  ELSE LET joined == {j \in (i + 1)..Len(items) :
                        /\ j \notin processed_indexes
                        /\ \E m \in i..(j - 1) :
                             /\ m \notin processed_indexes
                             /\ RLe(threshold, SimilarityOf(items[m].original_name,
                                                            items[j].original_name))}
           current_cluster == PickItems(items, {i} \cup joined, 1)
       IN  <<current_cluster>>
           \o ClusterLoopAnyEarlier(items, i + 1, processed_indexes \cup {i} \cup joined)

\* the clustering loop over one bucket, from index i on
RECURSIVE ClusterLoop(_, _, _)
ClusterLoop(items, i, processed_indexes) ==
  IF i > Len(items) THEN <<>>
  ELSE IF i \in processed_indexes THEN ClusterLoop(items, i + 1, processed_indexes)
  ELSE LET joined == {j \in (i + 1)..Len(items) :
                        /\ j \notin processed_indexes
                        /\ RLe(threshold, SimilarityOf(items[i].original_name, items[j].original_name))}
           current_cluster == PickItems(items, {i} \cup joined, 1)
       IN  <<current_cluster>> \o ClusterLoop(items, i + 1, processed_indexes \cup {i} \cup joined)

\* the clusters of all buckets, in the order the groups are appended
RECURSIVE AllClusters(_, _, _)
AllClusters(parsed_products, keys, k) ==
  IF k > Len(keys) THEN <<>>
  ELSE ClusterLoop(BucketItems(parsed_products, keys[k]), 1, {})
       \o AllClusters(parsed_products, keys, k + 1)

\* a stores_dict that keeps the first listing of every store (not the source's)
RECURSIVE StoresDictFirst(_, _)
StoresDictFirst(cluster, k) ==
  IF k = 0 THEN <<>>
  ELSE LET d == StoresDictFirst(cluster, k - 1)
           prod == cluster[k]
       IN  IF prod.store \notin DOMAIN d
             THEN [s \in DOMAIN d \cup {prod.store} |->
                     IF s = prod.store
                       THEN [name |-> prod.original_name, price |-> PriceOf(prod.price)]
                       ELSE d[s]]
             ELSE d

\* stores_dict after the first k products of the cluster
RECURSIVE StoresDict(_, _)
StoresDict(cluster, k) ==
  IF k = 0 THEN <<>>
  ELSE LET d == StoresDict(cluster, k - 1)
           prod == cluster[k]
           store == prod.store
           current_price == PriceOf(prod.price)
       IN  IF \/ store \notin DOMAIN d
              \/ /\ current_price # None
                 /\ (d[store].price = None \/ RLt(current_price, d[store].price))
             THEN [s \in DOMAIN d \cup {store} |->
                     IF s = store THEN [name |-> prod.original_name, price |-> current_price]
                     ELSE d[s]]
             ELSE d

\* a min_price that is the first parsed price of the cluster (not the source's)
RECURSIVE FirstPrice(_, _)
FirstPrice(cluster, k) ==
  IF k = 0 THEN None
  ELSE LET m == FirstPrice(cluster, k - 1)
       IN  IF m = None THEN PriceOf(cluster[k].price) ELSE m

\* min_price after the first k products of the cluster; None is float('inf')
RECURSIVE MinPrice(_, _)
MinPrice(cluster, k) ==
  IF k = 0 THEN None
  ELSE LET m == MinPrice(cluster, k - 1)
           current_price == PriceOf(cluster[k].price)
       IN  IF current_price # None /\ (m = None \/ RLt(current_price, m))
             THEN current_price ELSE m

\* "Calculate normalized unit price"
UnitPrice(cluster) ==
  LET qty_val == cluster[1].quantity_value
      qty_unit == cluster[1].quantity_unit
      min_price == MinPrice(cluster, Len(cluster))
      normalized_qty == normalize_quantity(qty_val, qty_unit)
  IN  IF /\ qty_val # None /\ qty_val # <<0, 1>>
         /\ qty_unit # None /\ qty_unit # <<>>
         /\ RLt(<<0, 1>>, normalized_qty)
         /\ min_price # None
        THEN RDiv(min_price, normalized_qty)
        ELSE None

\* "Format valid clusters": the group of one cluster
FormatCluster(cluster) ==
  [matched_name |-> cluster[1].original_name,
   brand |-> cluster[1].brand,
   quantity_value |-> cluster[1].quantity_value,
   quantity_unit |-> cluster[1].quantity_unit,
   normalized_unit_price |-> UnitPrice(cluster),
   stores |-> StoresDict(cluster, Len(cluster))]

\* the local `clusters` of every bucket, concatenated in bucket order
ClustersOf(parsed_products) ==
  AllClusters(parsed_products, BucketKeys(parsed_products, <<>>), 1)

\* groups only of the clusters found at two stores or more (not the source's)
FormatMultiStore(cs) ==
  LET kept == SelectSeq(cs, LAMBDA c : Cardinality({c[k].store : k \in DOMAIN c}) >= 2)
  IN  [i \in DOMAIN kept |-> FormatCluster(kept[i])]

\* the groups of the clusters, in the same order
FormatClusters(cs) == [i \in DOMAIN cs |-> FormatCluster(cs[i])]

group_parsed_products(parsed_products) == FormatClusters(ClustersOf(parsed_products))

(***************************************************************************)
(* match_products                                                          *)
(***************************************************************************)
\* the stores the parsing loop goes through, in its order
MatchedStores == <<"carrefour", "noon", "talabat", "amazon">>

\* store_results.get(store_name, {}).get('products', [])
ProductsOf(store_results, store_name) ==
  IF store_name \in DOMAIN store_results THEN store_results[store_name] ELSE <<>>

\* a filter that drops the error listings only (not the source's)
KeptUnlessError(p) ==
  \/ p.name = ListName
  \/ ~HasError(p.name)

\* 'Error' not in p.get('name', '') and p.get('name') != 'No results found'
KeptByFilter(p) ==
  \/ p.name = ListName
  \/ ~HasError(p.name) /\ p.name # N.NoResults
\* `'Error' not in None` raises TypeError
FilterRaises(products) == \E i \in DOMAIN products : products[i].name = None

RECURSIVE FilterProducts(_)
FilterProducts(products) ==
  IF products = <<>> THEN <<>>
  ELSE (IF KeptByFilter(Head(products)) THEN <<Head(products)>> ELSE <<>>)
       \o FilterProducts(Tail(products))

\* all_parsed after the stores from index k on; the inner try/except drops
\* the whole store when its parse raises
RECURSIVE AllParsed(_, _)
AllParsed(store_results, k) ==
  IF k > Len(MatchedStores) THEN <<>>
  ELSE LET store_name == MatchedStores[k]
           products == FilterProducts(ProductsOf(store_results, store_name))
       IN  (IF ParseRaises(products) THEN <<>>
            ELSE parse_products_regex(products, store_name))
           \o AllParsed(store_results, k + 1)

\* TypeError in the filter of one of the stores: caught by the outer except
MatchRaises(store_results) ==
  \E k \in DOMAIN MatchedStores : FilterRaises(ProductsOf(store_results, MatchedStores[k]))

\* step 3, for one group: match_type and relevance_score
Enrich(item, query) ==
  LET relevance == IF query # None /\ query # <<>>
                     THEN RelevanceOf(item.matched_name, query) ELSE <<0, 1>>
      is_exact ==
        /\ query # None /\ query # <<>>
        /\ AllPresent(item.matched_name, query)
        /\ RLt(<<0, 1>>, relevance)
        /\ (RLt(Rat(25, 100), relevance) \/ CategoryOf(query) = "Fresh Produce")
  IN  [matched_name |-> item.matched_name,
       brand |-> item.brand,
       quantity_value |-> item.quantity_value,
       quantity_unit |-> item.quantity_unit,
       normalized_unit_price |-> item.normalized_unit_price,
       stores |-> item.stores,
       match_type |-> IF is_exact THEN "exact" ELSE "partial",
       relevance_score |-> relevance]

\* get_sort_key(a) <= get_sort_key(b), on (rel_score, match_val, unit_price)
SortKeyLe(a, b) ==
  LET MatchVal(item) == IF item.match_type = "exact" THEN 0 ELSE 1
      PriceLe(x, y) == y = None \/ (x # None /\ RLe(x, y))
  IN
  \/ RLt(b.relevance_score, a.relevance_score)
  \/ /\ a.relevance_score = b.relevance_score
     /\ \/ MatchVal(a) < MatchVal(b)
        \/ /\ MatchVal(a) = MatchVal(b)
           /\ PriceLe(a.normalized_unit_price, b.normalized_unit_price)

\* list.sort(key=get_sort_key): stable, ascending in the key
RECURSIVE InsertSorted(_, _)
InsertSorted(sorted, item) ==
  IF sorted = <<>> THEN <<item>>
  ELSE LET last == sorted[Len(sorted)]
       IN  IF SortKeyLe(last, item) THEN Append(sorted, item)
           ELSE Append(InsertSorted(SubSeq(sorted, 1, Len(sorted) - 1), item), last)
RECURSIVE SortFirst(_, _)
SortFirst(items, k) ==
  IF k = 0 THEN <<>> ELSE InsertSorted(SortFirst(items, k - 1), items[k])
\* no sort (not the source's)
Unsorted(items) == items
SortByKey(items) == SortFirst(items, Len(items))

\* step 3 on the groups of step 2
RankGroups(grouped, query) ==
  SortByKey([i \in DOMAIN grouped |-> Enrich(grouped[i], query)])

match_products(store_results, query) ==
  IF MatchRaises(store_results) THEN <<>>
  ELSE RankGroups(group_parsed_products(AllParsed(store_results, 1)), query)

(***************************************************************************)
(* sort_products                                                           *)
(***************************************************************************)
\* the characters of lowercased names in code point order: the order of str
CodeSeq == <<" ", "(", ")", ",", "-", ".", "/">> \o DigitSeq \o <<":">> \o LowerSeq
\* a < b on str
RECURSIVE TextLt(_, _)
TextLt(a, b) ==
  IF b = <<>> THEN FALSE
  ELSE IF a = <<>> THEN TRUE
  ELSE IF Head(a) = Head(b) THEN TextLt(Tail(a), Tail(b))
  ELSE IndexOf(CodeSeq, Head(a)) < IndexOf(CodeSeq, Head(b))

\* get_unit_price, get_normalized_qty and the lambda of 'name'; None is
\* float('inf')
SortKey(product, sort_by) ==
  IF sort_by = "price" THEN product.normalized_unit_price
  ELSE IF sort_by = "quantity"
    THEN LET value == product.quantity_value
             unit == product.quantity_unit
         IN  IF value # None /\ value # <<0, 1>> /\ unit # None /\ unit # <<>>
               THEN normalize_quantity(value, unit) ELSE <<0, 1>>
  ELSE IF product.matched_name = None THEN <<>> ELSE Lower(product.matched_name)

\* an order of the keys with an absent unit price below every price (not the
\* source's)
KeyLtAbsentFirst(a, b, sort_by) ==
  IF sort_by = "price" THEN b # None /\ (a = None \/ RLt(a, b))
  ELSE IF sort_by = "quantity" THEN RLt(a, b)
  ELSE TextLt(a, b)

\* a < b on the keys of one sort_by
KeyLt(a, b, sort_by) ==
  IF sort_by = "price" THEN a # None /\ (b = None \/ RLt(a, b))
  ELSE IF sort_by = "quantity" THEN RLt(a, b)
  ELSE TextLt(a, b)

\* sorted(matched_products, key=..., reverse=...): stable in both directions
RECURSIVE InsertByKey(_, _, _, _)
InsertByKey(sorted, item, sort_by, reverse) ==
  IF sorted = <<>> THEN <<item>>
  ELSE LET last == sorted[Len(sorted)]
           before == IF reverse
                       THEN KeyLt(SortKey(last, sort_by), SortKey(item, sort_by), sort_by)
                       ELSE KeyLt(SortKey(item, sort_by), SortKey(last, sort_by), sort_by)
       IN  IF before
             THEN Append(InsertByKey(SubSeq(sorted, 1, Len(sorted) - 1), item, sort_by, reverse),
                         last)
             ELSE Append(sorted, item)
RECURSIVE SortedFirst(_, _, _, _)
SortedFirst(items, k, sort_by, reverse) ==
  IF k = 0 THEN <<>>
  ELSE InsertByKey(SortedFirst(items, k - 1, sort_by, reverse), items[k], sort_by, reverse)

sort_products(products, by, asc) ==
  IF by \in {"price", "quantity", "name"}
    THEN SortedFirst(products, Len(products), by, ~asc)
    ELSE products

(***************************************************************************)
(* database.py.  A table is the sequence of its rows in order of           *)
(* insertion and the id of a row, a surrogate key, is its position.  The   *)
(* columns kept are those the price tracking reads: normalized_name of     *)
(* products; product_id, store_name and store_product_name of              *)
(* store_products; store_product_id, price, effective_date and is_current  *)
(* of price_history.  Dates are day numbers.                               *)
(***************************************************************************)
EmptyDb == [products |-> <<>>, store_products |-> <<>>, price_history |-> <<>>]

\* SELECT id FROM products WHERE normalized_name = ?
ProductId(products, normalized_name) ==
  IF \E i \in DOMAIN products : products[i] = normalized_name
    THEN CHOOSE i \in DOMAIN products : products[i] = normalized_name
    ELSE 0
\* SELECT id FROM store_products WHERE product_id = ? AND store_name = ?
StoreProductId(store_products, product_id, store_name) ==
  LET hit == {i \in DOMAIN store_products :
                /\ store_products[i].product_id = product_id
                /\ store_products[i].store_name = store_name}
  IN  IF hit = {} THEN 0 ELSE CHOOSE i \in hit : TRUE

\* upsert_product: INSERT OR IGNORE (normalized_name is UNIQUE)
upsert_product(t, normalized_name) ==
  IF ProductId(t.products, normalized_name) # 0 THEN t
  ELSE [t EXCEPT !.products = Append(@, normalized_name)]

\* upsert_store_product: INSERT ... ON CONFLICT(product_id, store_name) DO UPDATE
upsert_store_product(t, product_id, store_name, store_product_name) ==
  LET id == StoreProductId(t.store_products, product_id, store_name)
  IN  IF id = 0
        THEN [t EXCEPT !.store_products =
                Append(@, [product_id |-> product_id, store_name |-> store_name,
                           store_product_name |-> store_product_name])]
        ELSE [t EXCEPT !.store_products[id].store_product_name = store_product_name]

\* record_price with a plain INSERT, without the ON CONFLICT clause and with
\* no UNIQUE constraint to stop it (not the source's)
record_priceInsertOnly(price_history, store_product_id, price, effective_date) ==
  LET upserted ==
        Append(price_history,
               [store_product_id |-> store_product_id, price |-> price,
                effective_date |-> effective_date, is_current |-> 1])
  IN  [i \in DOMAIN upserted |->
         IF /\ upserted[i].store_product_id = store_product_id
            /\ upserted[i].effective_date < effective_date
           THEN [upserted[i] EXCEPT !.is_current = 0]
           ELSE upserted[i]]

\* record_price on the table price_history: the upsert for the date, then
\* the UPDATE of the rows of the store product with an earlier date
record_price(price_history, store_product_id, price, effective_date) ==
  LET hit == {i \in DOMAIN price_history :
                /\ price_history[i].store_product_id = store_product_id
                /\ price_history[i].effective_date = effective_date}
      upserted ==
        IF hit = {}
          THEN Append(price_history,
                      [store_product_id |-> store_product_id, price |-> price,
                       effective_date |-> effective_date, is_current |-> 1])
          ELSE [i \in DOMAIN price_history |->
                  IF i \in hit THEN [price_history[i] EXCEPT !.price = price, !.is_current = 1]
                  ELSE price_history[i]]
  IN  [i \in DOMAIN upserted |->
         IF /\ upserted[i].store_product_id = store_product_id
            /\ upserted[i].effective_date < effective_date
           THEN [upserted[i] EXCEPT !.is_current = 0]
           ELSE upserted[i]]

\* a price sqlite3 can bind to the statement: a number.  Any other object
\* (a list, a dict) raises in cursor.execute
Bindable(price) == Len(price) = 2

\* stores.items() of a group of match_products is in the order its stores
\* were parsed
StoreOrder == <<"carrefour", "noon", "talabat", "amazon">>

\* the loop over the stores of one group, from the k-th store on; raised
\* when a statement raised, with the rows written until then
RECURSIVE SaveStores(_, _, _, _, _)
SaveStores(t, product, product_id, k, date) ==
  IF k > Len(StoreOrder) THEN [db |-> t, raised |-> FALSE]
  ELSE LET store_name == StoreOrder[k]
       IN  IF store_name \notin DOMAIN product.stores
             THEN SaveStores(t, product, product_id, k + 1, date)
           ELSE IF product.stores[store_name].price = None
             THEN SaveStores(t, product, product_id, k + 1, date)
           ELSE LET store_data == product.stores[store_name]
                    t1 == upsert_store_product(t, product_id, store_name, store_data.name)
                    store_product_id == StoreProductId(t1.store_products, product_id, store_name)
                IN  IF ~Bindable(store_data.price) THEN [db |-> t1, raised |-> TRUE]
                    ELSE SaveStores([t1 EXCEPT !.price_history =
                                       record_price(@, store_product_id, store_data.price, date)],
                                    product, product_id, k + 1, date)

\* the body of the loop over matched_products for one group
SaveProduct(t, product, date) ==
  IF product.matched_name = <<>> THEN [db |-> t, raised |-> FALSE, saved |-> 0]
  ELSE LET t1 == upsert_product(t, product.matched_name)
           r == SaveStores(t1, product, ProductId(t1.products, product.matched_name), 1, date)
       IN  [db |-> r.db, raised |-> r.raised, saved |-> IF r.raised THEN 0 ELSE 1]

\* the loop over matched_products from the k-th group on
RECURSIVE SaveProducts(_, _, _, _)
SaveProducts(t, matched_products, k, date) ==
  IF k > Len(matched_products) THEN [db |-> t, raised |-> FALSE]
  ELSE LET r == SaveProduct(t, matched_products[k], date)
       IN  IF r.raised THEN [db |-> r.db, raised |-> TRUE]
           ELSE SaveProducts(r.db, matched_products, k + 1, date)

\* the database after save_search_results(matched_products) inside the try
\* block of /match: committed when the loop ends, rolled back when it raises
save_search_results(t, matched_products, date) ==
  IF matched_products = <<>> THEN t
  ELSE LET r == SaveProducts(t, matched_products, 1, date)
       IN  IF r.raised THEN t ELSE r.db

\* the connection and the locals of save_search_results: the state of the
\* connection, the database as the open transaction sees it, the argument,
\* the number of groups the loop has done, today, saved_count and whether
\* the call ended with an exception.  Here no call was made yet
NoConnection ==
  [state |-> "closed", work |-> EmptyDb, matched_products |-> <<>>, i |-> 0, today |-> 0,
   saved_count |-> 0, raised |-> FALSE]

(***************************************************************************)
(* app.py: the search status table, the /search requests, the browser pool *)
(***************************************************************************)
\* _search_status as the module creates it, and as /search resets it
ReadyStatus == [s \in Stores |-> "ready"]
\* the /search requests that can be in progress together, each with the
\* position of its handler and of its five workers
MaxRequests == 2
NoRequests ==
  [r \in 1..MaxRequests |-> [pc |-> "idle", workers |-> [s \in Stores |-> "idle"]]]

\* None in the browser pool
NoDriver == 0
\* _browser_pool as the module creates it
EmptyPool == [s \in {"carrefour", "noon", "amazon"} |-> NoDriver]
\* the store names get_or_create_browser is called with, two of the three
PoolStores == {"Carrefour", "Noon"}
\* the threads that call get_or_create_browser: the preload thread of a
\* store and the search worker of a store, each with its position in the
\* function and its local driver
PoolThreads == {"preload", "search"} \X PoolStores
NoThreads == [t \in PoolThreads |-> [pc |-> "idle", driver |-> NoDriver]]

(***************************************************************************)
(* The state.  store_results and query are the arguments of a /match       *)
(* request, matched_products what match_products returned for them, groups *)
(* and clusters the locals of group_parsed_products it went through.  A    *)
(* direct call of group_parsed_products has its argument in parsed.        *)
(* product_name, query and score are the arguments and the result of a     *)
(* call of calculate_relevance_score.  sort_by and ascending are the       *)
(* sorting parameters of the /match request and sorted_products what       *)
(* sort_products returned for matched_products.  quantity is the result of *)
(* a call of extract_quantity with product_name, or the argument of a call *)
(* of normalize_quantity, and normalized the result of that call.          *)
(***************************************************************************)
VARIABLES store_results, query, parsed, pc, clusters, groups, matched_products,
          product_name, score, sort_by, ascending, sorted_products, quantity,
          normalized, db, conn, today, search_status, requests, browser_pool,
          threads, drivers
\* the reconciliation core; the database, its connection and the date; the
\* search status table and the /search requests; the browser pool
matchVars == <<store_results, query, parsed, pc, clusters, groups, matched_products,
               product_name, score, sort_by, ascending, sorted_products, quantity,
               normalized>>
dbVars == <<db, conn, today>>
statusVars == <<search_status, requests>>
poolVars == <<browser_pool, threads, drivers>>
vars == <<matchVars, dbVars, statusVars, poolVars>>

\* the number of listings a request carries, over all its stores
MaxGroupListings == 3
MaxMatchListings == 2
\* the number of parsed listings of a direct call of group_parsed_products
MaxParsed == 2
\* the number of words of a product name that is scored
MaxNameWords == 3

RECURSIVE SumLen(_, _)
SumLen(sr, ss) ==
  IF ss = {} THEN 0
  ELSE LET s == CHOOSE x \in ss : TRUE IN Len(sr[s]) + SumLen(sr, ss \ {s})
TotalListings(sr) == SumLen(sr, DOMAIN sr)

Init ==
  /\ store_results = <<>>
  /\ query \in Range(QuerySeq)
  /\ parsed = <<>>
  /\ pc = "collect"
  /\ clusters = <<>>
  /\ groups = <<>>
  /\ matched_products = <<>>
  /\ product_name = <<>>
  /\ score = None
  /\ sort_by = "price"
  /\ ascending = TRUE
  /\ sorted_products = <<>>
  /\ quantity = NoQuantity
  /\ normalized = None
  /\ db = EmptyDb
  /\ conn = NoConnection
  /\ today = 1
  /\ search_status = ReadyStatus
  /\ requests = NoRequests
  /\ browser_pool = EmptyPool
  /\ threads = NoThreads
  /\ drivers = <<>>

\* a store adapter (search_carrefour ... search_lulu) or the client adds one
\* listing to the store's products, as long as the request carries fewer
\* than max
AddListing(store, listing, max) ==
  /\ pc = "collect"
  /\ parsed = <<>>
  /\ TotalListings(store_results) < max
  /\ store_results' =
       [s \in DOMAIN store_results \cup {store} |->
          IF s = store THEN Append(ProductsOf(store_results, store), listing)
          ELSE store_results[s]]
  /\ UNCHANGED <<query, parsed, pc, clusters, groups, matched_products, product_name, score,
                 sort_by, ascending, sorted_products, quantity, normalized,
                 dbVars, statusVars, poolVars>>

\* a /match request without the field sort_by
NoSortBy == "<no sort_by>"
\* data.get('sort_by', 'price')
GetSortBy(data_sort_by) == IF data_sort_by = NoSortBy THEN "price" ELSE data_sort_by

\* /match with a sort in place, matched_products.sort(...), instead of
\* sorted(...) (not the source's)
MatchRequestSortInPlace ==
  /\ pc = "collect"
  /\ parsed = <<>>
  /\ pc' = "matched"
  /\ clusters' = IF MatchRaises(store_results) THEN <<>>
                 ELSE ClustersOf(AllParsed(store_results, 1))
  /\ groups' = FormatClusters(clusters')
  /\ sorted_products' = sort_products(RankGroups(groups', query), GetSortBy(sort_by), ascending)
  /\ matched_products' = sorted_products'
  /\ db' = save_search_results(db, sorted_products', today)
  /\ UNCHANGED <<store_results, query, parsed, product_name, score, sort_by, ascending,
                 quantity, normalized,
                 conn, today, statusVars, poolVars>>

\* /match: match_products(raw_results, key, query=product_name), then
\* sort_products(matched_products, sort_by, ascending), sort_by being the
\* field of the request or its default; clusters and groups are the locals
\* of the call of group_parsed_products
MatchRequest ==
  /\ pc = "collect"
  /\ parsed = <<>>
  /\ pc' = "matched"
  /\ clusters' = IF MatchRaises(store_results) THEN <<>>
                 ELSE ClustersOf(AllParsed(store_results, 1))
  /\ groups' = FormatClusters(clusters')
  /\ matched_products' = RankGroups(groups', query)
  /\ sorted_products' = sort_products(matched_products', GetSortBy(sort_by), ascending)
  /\ db' = save_search_results(db, sorted_products', today)
  /\ UNCHANGED <<store_results, query, parsed, product_name, score, sort_by, ascending,
                 quantity, normalized,
                 conn, today, statusVars, poolVars>>

\* a caller of group_parsed_products adds one parsed listing to its argument
AddParsed(p) ==
  /\ pc = "collect"
  /\ store_results = <<>>
  /\ Len(parsed) < MaxParsed
  /\ parsed' = Append(parsed, p)
  /\ UNCHANGED <<store_results, query, pc, clusters, groups, matched_products,
                 product_name, score, sort_by, ascending, sorted_products, quantity,
                 normalized,
                 dbVars, statusVars, poolVars>>

\* group_parsed_products(parsed)
GroupRequest ==
  /\ pc = "collect"
  /\ parsed # <<>>
  /\ pc' = "grouped"
  /\ clusters' = ClustersOf(parsed)
  /\ groups' = FormatClusters(clusters')
  /\ UNCHANGED <<store_results, query, parsed, matched_products, product_name, score,
                 sort_by, ascending, sorted_products, quantity, normalized,
                 dbVars, statusVars, poolVars>>

\* the similarity grouper: /match requests of up to MaxGroupListings listings
\* of the same products at three stores, and direct calls with up to
\* MaxParsed parsed listings
NextGroup ==
  \/ \E store \in {"carrefour", "noon", "amazon"}, listing \in GroupListings :
       AddListing(store, listing, MaxGroupListings)
  \/ MatchRequest
  \/ \E p \in ParsedListings : AddParsed(p)
  \/ GroupRequest
InitGroup ==
  /\ store_results = <<>>
  /\ query = Q.milk
  /\ parsed = <<>>
  /\ pc = "collect"
  /\ clusters = <<>>
  /\ groups = <<>>
  /\ matched_products = <<>>
  /\ product_name = <<>>
  /\ score = None
  /\ sort_by = "price"
  /\ ascending = TRUE
  /\ sorted_products = <<>>
  /\ quantity = NoQuantity
  /\ normalized = None
  /\ db = EmptyDb
  /\ conn = NoConnection
  /\ today = 1
  /\ search_status = ReadyStatus
  /\ requests = NoRequests
  /\ browser_pool = EmptyPool
  /\ threads = NoThreads
  /\ drivers = <<>>
Spec == InitGroup /\ [][NextGroup]_vars

\* the orchestrator: /match requests of up to MaxMatchListings listings,
\* valid or not, at the five stores
NextMatch ==
  \/ \E store \in Stores, listing \in MatchListings :
       AddListing(store, listing, MaxMatchListings)
  \/ MatchRequest
SpecMatch == Init /\ [][NextMatch]_vars

\* the caller of calculate_relevance_score puts one more word into the name
AddWord(w) ==
  /\ pc = "name"
  /\ Len(Split(product_name)) < MaxNameWords
  /\ product_name' = IF product_name = <<>> THEN w ELSE product_name \o <<" ">> \o w
  /\ UNCHANGED <<store_results, query, parsed, pc, clusters, groups, matched_products, score,
                 sort_by, ascending, sorted_products, quantity, normalized,
                 dbVars, statusVars, poolVars>>

\* calculate_relevance_score(product_name, query)
ScoreRequest ==
  /\ pc = "name"
  /\ pc' = "scored"
  /\ score' = calculate_relevance_score(product_name, query)
  /\ UNCHANGED <<store_results, query, parsed, clusters, groups, matched_products,
                 product_name, sort_by, ascending, sorted_products, quantity, normalized,
                 dbVars, statusVars, poolVars>>

InitScore ==
  /\ store_results = <<>>
  /\ query \in ScoreQueries
  /\ parsed = <<>>
  /\ pc = "name"
  /\ clusters = <<>>
  /\ groups = <<>>
  /\ matched_products = <<>>
  /\ product_name = <<>>
  /\ score = None
  /\ sort_by = "price"
  /\ ascending = TRUE
  /\ sorted_products = <<>>
  /\ quantity = NoQuantity
  /\ normalized = None
  /\ db = EmptyDb
  /\ conn = NoConnection
  /\ today = 1
  /\ search_status = ReadyStatus
  /\ requests = NoRequests
  /\ browser_pool = EmptyPool
  /\ threads = NoThreads
  /\ drivers = <<>>
NextScore ==
  \/ \E w \in ScoreWords : AddWord(w)
  \/ ScoreRequest
SpecScore == InitScore /\ [][NextScore]_vars

\* the sorter: /match requests with every sort_by and sort_order
InitSort ==
  /\ store_results = <<>>
  /\ query = Q.nestle
  /\ parsed = <<>>
  /\ pc = "collect"
  /\ clusters = <<>>
  /\ groups = <<>>
  /\ matched_products = <<>>
  /\ product_name = <<>>
  /\ score = None
  /\ sort_by \in {NoSortBy, "price", "quantity", "name", "relevance"}
  /\ ascending \in BOOLEAN
  /\ sorted_products = <<>>
  /\ quantity = NoQuantity
  /\ normalized = None
  /\ db = EmptyDb
  /\ conn = NoConnection
  /\ today = 1
  /\ search_status = ReadyStatus
  /\ requests = NoRequests
  /\ browser_pool = EmptyPool
  /\ threads = NoThreads
  /\ drivers = <<>>
SpecSort == InitSort /\ [][NextGroup]_vars

\* the names extract_quantity is called with: up to MaxNameTokens pieces, each
\* a range "A-Bunit", a parenthesized quantity, or a phrase of a listing name
MaxNameTokens == 2
\* the ranges "A-Bunit", with the numbers and the unit they are written with
Ranges ==
  { [text |-> a.text \o <<"-">> \o b.text \o u.text, low |-> a.value, high |-> b.value,
     unit |-> u.unit] :
      a \in {[text |-> <<"0",".","9">>, value |-> <<9, 10>>], [text |-> <<"2","2","0">>, value |-> <<220, 1>>]},
      b \in {[text |-> <<"1">>, value |-> <<1, 1>>], [text |-> <<"2","5","0">>, value |-> <<250, 1>>]},
      u \in {[text |-> <<"g">>, unit |-> <<"g">>],
             [text |-> <<"k","g">>, unit |-> <<"k","g">>],
             [text |-> <<" ","p","i","e","c","e","s">>, unit |-> <<"p","c","s">>],
             [text |-> <<" ","L","i","t","r","e","s">>, unit |-> <<"l">>]} }
QuantityTokens ==
  {r.text : r \in Ranges} \cup
  { <<"(","2","2","0","-","2","5","0","g",")">>,
    <<"(","1",".","5","k","g",")">>,
    <<"(","6"," ","p","a","c","k",")">>,
    <<"(","5","0","0"," ","M","L",")">>,
    <<"2"," ","p","i","e","c","e","s"," ">>,
    <<"5","0","0","g","m">>,
    <<"5","0","0","g">>,
    <<" ","x"," ","2">>,
    <<"1","k","g">>,
    <<"1"," ","l","i","t","r","e","s">>,
    <<"2","1","g">>,
    <<" ","6"," ","P","C","S">>,
    <<"P","r","o","d","u","c","t"," ","3","0"," ","P","i","e","c","e","s">>,
    <<" ","-"," ","3","0"," ","P","i","e","c","e","s">>,
    <<"S","e","e","d"," ","P","o","t","a","t","o"," ","-"," ","7","5","0","g">>,
    <<" ","-"," ","A","p","p","r","o","x"," ","4"," ","p","i","e","c","e","s"," ","p","e","r"," ","K","G">>,
    <<"3"," ","p","a","c","k"," ">>,
    <<"M","i","l","k"," ">>,
    <<"B","a","b","y"," ","P","o","t","a","t","o"," ","-"," ","1","0","-","1","5"," ","P","i","e","c","e","s"," ">> }
RECURSIVE QuantityNames(_)
QuantityNames(k) ==
  IF k = 0 THEN {<<>>}
  ELSE {n \o t : n \in QuantityNames(k - 1), t \in QuantityTokens \cup {<<>>}}

\* extract_quantity(product_name)
ExtractRequest ==
  /\ pc = "qname"
  /\ pc' = "extracted"
  /\ quantity' = extract_quantity(product_name)
  /\ UNCHANGED <<store_results, query, parsed, clusters, groups, matched_products,
                 product_name, score, sort_by, ascending, sorted_products, normalized,
                 dbVars, statusVars, poolVars>>
InitQuantity ==
  /\ store_results = <<>>
  /\ query = <<>>
  /\ parsed = <<>>
  /\ pc = "qname"
  /\ clusters = <<>>
  /\ groups = <<>>
  /\ matched_products = <<>>
  /\ product_name \in QuantityNames(MaxNameTokens)
  /\ score = None
  /\ sort_by = "price"
  /\ ascending = TRUE
  /\ sorted_products = <<>>
  /\ quantity = NoQuantity
  /\ normalized = None
  /\ db = EmptyDb
  /\ conn = NoConnection
  /\ today = 1
  /\ search_status = ReadyStatus
  /\ requests = NoRequests
  /\ browser_pool = EmptyPool
  /\ threads = NoThreads
  /\ drivers = <<>>
SpecQuantity == InitQuantity /\ [][ExtractRequest]_vars

\* the values and units normalize_quantity is called with
NormalizeInputs ==
  [value : {None, <<0, 1>>, <<1, 1>>, <<1000, 1>>, <<1, 2>>, <<500, 1>>, <<3, 2>>, <<1500, 1>>,
            <<2, 1>>, <<250, 1>>},
   unit : {None, <<>>, <<"k","g">>, <<"g">>, <<"l">>, <<"m","l">>, <<"K","G">>, <<"l","t","r">>,
           <<"l","i","t","r","e">>, <<"M","l">>, <<"p","c","s">>}]
\* normalize_quantity(quantity.value, quantity.unit)
NormalizeRequest ==
  /\ pc = "quantity"
  /\ pc' = "normalized"
  /\ normalized' = normalize_quantity(quantity.value, quantity.unit)
  /\ UNCHANGED <<store_results, query, parsed, clusters, groups, matched_products,
                 product_name, score, sort_by, ascending, sorted_products, quantity,
                 dbVars, statusVars, poolVars>>
InitNormalize ==
  /\ store_results = <<>>
  /\ query = <<>>
  /\ parsed = <<>>
  /\ pc = "quantity"
  /\ clusters = <<>>
  /\ groups = <<>>
  /\ matched_products = <<>>
  /\ product_name = <<>>
  /\ score = None
  /\ sort_by = "price"
  /\ ascending = TRUE
  /\ sorted_products = <<>>
  /\ quantity \in NormalizeInputs
  /\ normalized = None
  /\ db = EmptyDb
  /\ conn = NoConnection
  /\ today = 1
  /\ search_status = ReadyStatus
  /\ requests = NoRequests
  /\ browser_pool = EmptyPool
  /\ threads = NoThreads
  /\ drivers = <<>>
SpecNormalize == InitNormalize /\ [][NormalizeRequest]_vars

\* the clustering loop: direct calls of group_parsed_products with up to
\* MaxClusterItems parsed listings, most of them of one bucket
MaxClusterItems == 3
ClusterListings ==
  { [original_name |-> n, brand |-> <<"A","l">>, quantity_value |-> None,
     quantity_unit |-> None, price |-> P.AED10, store |-> "carrefour"] :
      n \in {N.AinCup, N.AinCupBox, N.AinCupBoxSet, N.CupBox} }
  \cup { [original_name |-> N.AinCupBox, brand |-> <<"A","i","n">>, quantity_value |-> None,
          quantity_unit |-> None, price |-> P.plain12, store |-> "noon"],
         [original_name |-> N.Only500ml, brand |-> <<"5","0","0","m","l">>,
          quantity_value |-> Rat(500, 1), quantity_unit |-> <<"m","l">>, price |-> P.AED10,
          store |-> "carrefour"],
         [original_name |-> N.Only500ml, brand |-> <<"5","0","0","m","l">>,
          quantity_value |-> Rat(500, 1), quantity_unit |-> <<"m","l">>, price |-> P.plain12,
          store |-> "noon"] }
InitCluster ==
  /\ store_results = <<>>
  /\ query = Q.milk
  /\ parsed \in UNION {[1..k -> ClusterListings] : k \in 1..MaxClusterItems}
  /\ pc = "collect"
  /\ clusters = <<>>
  /\ groups = <<>>
  /\ matched_products = <<>>
  /\ product_name = <<>>
  /\ score = None
  /\ sort_by = "price"
  /\ ascending = TRUE
  /\ sorted_products = <<>>
  /\ quantity = NoQuantity
  /\ normalized = None
  /\ db = EmptyDb
  /\ conn = NoConnection
  /\ today = 1
  /\ search_status = ReadyStatus
  /\ requests = NoRequests
  /\ browser_pool = EmptyPool
  /\ threads = NoThreads
  /\ drivers = <<>>
SpecCluster == InitCluster /\ [][GroupRequest]_vars

(***************************************************************************)
(* group_parsed_products: claims C1 to C4, under Spec                      *)
(***************************************************************************)
\* group_parsed_products has returned: groups[i] is the group of clusters[i]
Grouped == pc \in {"matched", "grouped"}

\* the parsed prices of the listings of a cluster, and of one of its stores
ClusterPrices(c) == {PriceOf(c[k].price) : k \in DOMAIN c} \ {None}
StorePrices(c, s) == {PriceOf(c[k].price) : k \in {j \in DOMAIN c : c[j].store = s}} \ {None}
Lowest(ps) == IF ps = {} THEN None ELSE CHOOSE p \in ps : \A r \in ps : RLe(p, r)

\* C1: in every group returned by group_parsed_products, the stores map has
\* one entry for each store of the cluster, and the entry's price is the
\* lowest parsed price among the listings of that store in the cluster,
\* absent only when every such listing has an absent price.
C1_LowestPricePerStore ==
  Grouped =>
    \A i \in DOMAIN groups :
      /\ DOMAIN groups[i].stores = {clusters[i][k].store : k \in DOMAIN clusters[i]}
      /\ \A s \in DOMAIN groups[i].stores :
           groups[i].stores[s].price = Lowest(StorePrices(clusters[i], s))

\* a store has two listings in one cluster, the later one cheaper, and the
\* group has the store at the later one's price
C1_Witness ==
  /\ Grouped
  /\ \E i \in DOMAIN clusters : \E k, l \in DOMAIN clusters[i] :
       /\ k < l
       /\ clusters[i][k].store = clusters[i][l].store
       /\ PriceOf(clusters[i][k].price) # None
       /\ PriceOf(clusters[i][l].price) # None
       /\ RLt(PriceOf(clusters[i][l].price), PriceOf(clusters[i][k].price))
       /\ groups[i].stores[clusters[i][l].store].price = PriceOf(clusters[i][l].price)

\* the BucketKey of the claim: (lower-cased brand, quantity_value, quantity_unit)
KeyOf(p) == <<Lower(p.brand), p.quantity_value, p.quantity_unit>>

\* C2: two parsed listings whose BucketKeys differ are never in the same
\* cluster, hence never in the same output group, whatever their names.
C2_BucketsNeverMixed ==
  Grouped =>
    \A i \in DOMAIN clusters : \A k, l \in DOMAIN clusters[i] :
      KeyOf(clusters[i][k]) = KeyOf(clusters[i][l])

\* a direct call has grouped two listings of the same name and brand whose
\* quantities differ: they are in two groups
C2_Witness ==
  /\ pc = "grouped"
  /\ \E i, j \in DOMAIN clusters :
       /\ i # j
       /\ clusters[i][1].original_name = clusters[j][1].original_name
       /\ Lower(clusters[i][1].brand) = Lower(clusters[j][1].brand)
       /\ clusters[i][1].quantity_value # clusters[j][1].quantity_value

PriceSet == Range(PriceSeq)
\* the request has "Almarai Milk 1L" at one store and "Almarai Fresh Milk 1
\* Litre" at another, and nothing else
AlmaraiRequest ==
  \E a, b \in DOMAIN store_results :
    /\ a # b
    /\ DOMAIN store_results = {a, b}
    /\ \E pa, pb \in PriceSet :
         /\ store_results[a] = <<[name |-> N.AlmaraiMilk, price |-> pa]>>
         /\ store_results[b] = <<[name |-> N.AlmaraiFreshMilk, price |-> pb]>>

\* C3 as the spec states it: the two Almarai listings are clustered into a
\* single group whose stores map contains both stores.
C3_AlmaraiClustered ==
  (pc = "matched" /\ AlmaraiRequest) =>
    \E i \in DOMAIN groups : DOMAIN groups[i].stores = DOMAIN store_results

\* C3, amended: "Almarai Milk 1L" and "Almarai Fresh Milk 1 Litre" get the same
\* BucketKey, (almarai, 1, l), but the Jaccard similarity of their cleaned
\* word sets is 2/3, below the threshold, so they are never in the same
\* cluster: a request with the two at two stores yields two groups of one
\* store each.
C3_AlmaraiSeparate ==
  /\ BucketKey(Head(parse_products_regex(<<[name |-> N.AlmaraiMilk, price |-> P.plain12]>>, "carrefour")))
       = BucketKey(Head(parse_products_regex(<<[name |-> N.AlmaraiFreshMilk, price |-> P.plain12]>>, "noon")))
  /\ SimilarityOf(N.AlmaraiMilk, N.AlmaraiFreshMilk) = Rat(2, 3)
  /\ Grouped =>
       \A i \in DOMAIN clusters : \A k, l \in DOMAIN clusters[i] :
         ~(/\ clusters[i][k].original_name = N.AlmaraiMilk
           /\ clusters[i][l].original_name = N.AlmaraiFreshMilk)
  /\ (pc = "matched" /\ AlmaraiRequest) =>
       /\ Len(groups) = 2
       /\ \A i \in DOMAIN groups : Cardinality(DOMAIN groups[i].stores) = 1

C3_Witness ==
  /\ pc = "matched"
  /\ AlmaraiRequest
  /\ Len(groups) = 2
  /\ DOMAIN groups[1].stores # DOMAIN groups[2].stores

\* the request has "Nestle Milk 1L" at 10 at one store and at 12 at another
NestleRequest ==
  \E a, b \in DOMAIN store_results :
    /\ a # b
    /\ DOMAIN store_results = {a, b}
    /\ store_results[a] = <<[name |-> N.NestleMilk1L, price |-> P.AED10]>>
    /\ store_results[b] = <<[name |-> N.NestleMilk1L, price |-> P.plain12]>>

\* the quantity of the group is unknown
NoQuantityIn(g) == g.quantity_value = None \/ g.quantity_unit = None

\* C4: for every group, normalized_unit_price is the lowest parsed price of
\* the cluster divided by normalize_quantity(quantity_value, quantity_unit),
\* and absent if the quantity is unknown or every price is absent; two stores
\* with "Nestle Milk 1L" at 10 and 12 yield one group with both stores whose
\* unit price is 10 / 1.
C4_UnitPriceFromLowest ==
  /\ Grouped =>
       \A i \in DOMAIN groups :
         groups[i].normalized_unit_price =
           IF NoQuantityIn(groups[i]) \/ ClusterPrices(clusters[i]) = {} THEN None
           ELSE RDiv(Lowest(ClusterPrices(clusters[i])),
                     normalize_quantity(groups[i].quantity_value, groups[i].quantity_unit))
  /\ (pc = "matched" /\ NestleRequest) =>
       /\ Len(groups) = 1
       /\ DOMAIN groups[1].stores = DOMAIN store_results
       /\ groups[1].normalized_unit_price = Rat(10, 1)
       /\ Len(matched_products) = 1
       /\ matched_products[1].normalized_unit_price = Rat(10, 1)

\* the Nestle request with the dearer listing parsed first
C4_Witness ==
  /\ pc = "matched"
  /\ NestleRequest
  /\ PriceOf(clusters[1][1].price) = Rat(12, 1)
  /\ groups[1].normalized_unit_price = Rat(10, 1)

(***************************************************************************)
(* match_products: claims C5 to C9, under SpecMatch                        *)
(***************************************************************************)
\* an error or "No results found" listing, as the store adapters make them
Sentinel(p) == IsText(p.name) /\ (p.name = N.NoResults \/ HasError(p.name))
\* a listing with a name to parse
Parseable(p) == IsText(p.name) /\ p.name # <<>>
Valid(p) == Parseable(p) /\ ~Sentinel(p)
\* every name of the request is text
WellFormed(sr) == \A s \in DOMAIN sr : \A k \in DOMAIN sr[s] : IsText(sr[s][k].name)
InSomeGroup(s, mp) == \E i \in DOMAIN mp : s \in DOMAIN mp[i].stores

\* C5 as the spec states it: every store of store_results that has a
\* non-sentinel listing with a non-empty name is in the stores map of an
\* output group (on requests whose names are all text).
C5_EveryStoreReconciled ==
  (pc = "matched" /\ WellFormed(store_results)) =>
    \A s \in DOMAIN store_results :
      (\E k \in DOMAIN store_results[s] : Valid(store_results[s][k]))
        => InSomeGroup(s, matched_products)

\* lulu has a valid listing and no group has lulu
C5_LuluDropped ==
  /\ pc = "matched"
  /\ WellFormed(store_results)
  /\ "lulu" \in DOMAIN store_results
  /\ \E k \in DOMAIN store_results["lulu"] : Valid(store_results["lulu"][k])
  /\ ~InSomeGroup("lulu", matched_products)

\* the request without the listings that have no name to parse
Clean(sr) == [s \in DOMAIN sr |-> SelectSeq(sr[s], Parseable)]

\* C6 as the spec states it: match_products skips a listing whose name is
\* missing, None or not text, and returns the groups of all other listings.
C6_UnparseableSkipped ==
  pc = "matched" => matched_products = match_products(Clean(store_results), query)

\* one store has a listing named None, another a valid listing, and
\* match_products has returned nothing
C6_BatchAborted ==
  /\ pc = "matched"
  /\ \E s \in DOMAIN store_results : \E k \in DOMAIN store_results[s] :
       store_results[s][k].name = None
  /\ match_products(Clean(store_results), query) # <<>>
  /\ matched_products = <<>>

\* the store has listings, and only sentinel listings
SentinelOnly(sr, s) ==
  /\ s \in DOMAIN sr
  /\ sr[s] # <<>>
  /\ \A k \in DOMAIN sr[s] : Sentinel(sr[s][k])
WithoutStore(sr, s) == [t \in DOMAIN sr \ {s} |-> sr[t]]
WithNoListings(sr, s) == [t \in DOMAIN sr \cup {s} |-> IF t = s THEN <<>> ELSE sr[t]]

\* C7: for a store that is missing from store_results or has sentinel
\* listings only, match_products returns what it returns for the request
\* without the store, and for the request with the store at zero listings.
C7_SentinelStoreIgnored ==
  pc = "matched" =>
    \A s \in Stores :
      (s \notin DOMAIN store_results \/ SentinelOnly(store_results, s)) =>
        /\ matched_products = match_products(WithoutStore(store_results, s), query)
        /\ matched_products = match_products(WithNoListings(store_results, s), query)

\* a store the matcher goes through has a sentinel listing only, another one
\* a valid listing, and the groups are those of the valid listing
C7_Witness ==
  /\ pc = "matched"
  /\ \E k \in DOMAIN MatchedStores : SentinelOnly(store_results, MatchedStores[k])
  /\ matched_products # <<>>

WholeWords(n, q) ==
  LET query_terms == Split(Lower(q))
  IN  \A k \in DOMAIN query_terms : HasWord(Lower(n), query_terms[k])
WholeWordsTable ==
  Tabulate(LAMBDA n : Tabulate(LAMBDA q : WholeWords(n, q), QuerySeq, Len(QuerySeq)),
           NameSeq, Len(NameSeq))
WholeWordsOf(n, q) == WholeWordsTable[IndexOf(NameSeq, n)][IndexOf(QuerySeq, q)]

\* C9 as the spec states it: a group is 'exact' only if every query term is
\* a whole word of its matched_name and its relevance score is positive.
C9_ExactOnlyWholeWords ==
  pc = "matched" =>
    \A i \in DOMAIN matched_products :
      matched_products[i].match_type = "exact" =>
        /\ WholeWordsOf(matched_products[i].matched_name, query)
        /\ RLt(<<0, 1>>, matched_products[i].relevance_score)

\* an 'exact' group whose name has a query term inside a larger word only
C9_ExactOnSubstring ==
  /\ pc = "matched"
  /\ \E i \in DOMAIN matched_products :
       /\ matched_products[i].match_type = "exact"
       /\ ~WholeWordsOf(matched_products[i].matched_name, query)

(***************************************************************************)
(* calculate_relevance_score: claim C10, under SpecScore                   *)
(***************************************************************************)
\* C10: calculate_relevance_score returns a value in [0, 1], and 0 for an
\* empty or blank query.
C10_ScoreInUnitInterval ==
  pc = "scored" =>
    /\ RLe(<<0, 1>>, score)
    /\ RLe(score, <<1, 1>>)
    /\ (query \in {<<>>, Q.blank} => score = <<0, 1>>)

\* the bonuses add up to more than 1 and the score is 1
C10_Witness ==
  /\ pc = "scored"
  /\ score = <<1, 1>>
  /\ RLt(<<1, 1>>, RawScore(product_name, query))

(***************************************************************************)
(* calculate_relevance_score: claims C11 and C12, under SpecScore          *)
(***************************************************************************)
\* the names of the examples
E ==
  [ OnionRed |-> <<"O","n","i","o","n"," ","-"," ","R","e","d">>,
    OnionChips |-> <<"O","n","i","o","n"," ","C","h","i","p","s"," ","1","5","0","g">>,
    GreenPeas |-> <<"G","r","e","e","n"," ","P","e","a","s"," ","5","0","0","g">>,
    Chickpeas |-> <<"C","h","i","c","k","p","e","a","s"," ","5","0","0","g">> ]
\* the names a scored name is compared with: the names of up to two words,
\* and the examples
OtherNames ==
  {<<>>} \cup ScoreWords \cup {a \o <<" ">> \o b : a, b \in ScoreWords}
  \cup {E.OnionRed, E.OnionChips, E.GreenPeas, E.Chickpeas}
\* the name contains a processed-disqualifier keyword
Disqualified(n) ==
  \E k \in DOMAIN FRESH_DISQUALIFIERS : Contains(Lower(n), FRESH_DISQUALIFIERS[k])
\* the name has no disqualifier, is classified Fresh Produce and has every
\* query term as a whole word
FreshMatch(n, q) ==
  /\ ~Disqualified(n)
  /\ classify_text(n) = "Fresh Produce"
  /\ WholeWords(n, q)
FreshQuerySeq == <<Q.onion, Q.red_onion>>
\* per Fresh Produce query, the scores of the other names with a
\* disqualifier, and of those that are fresh matches
DisqualifiedScores ==
  Tabulate(LAMBDA q : {calculate_relevance_score(n, q) : n \in {m \in OtherNames : Disqualified(m)}},
           FreshQuerySeq, Len(FreshQuerySeq))
FreshScores ==
  Tabulate(LAMBDA q : {calculate_relevance_score(n, q) : n \in {m \in OtherNames : FreshMatch(m, q)}},
           FreshQuerySeq, Len(FreshQuerySeq))

OneTermQuerySeq == <<Q.onion, Q.peas, Q.milk>>
OneTerm(q) == Len(Split(Lower(q))) = 1
\* the name has the term of the query, but only as part of a larger word
SubstringOnly(n, q) ==
  LET term == Split(Lower(q))[1]
  IN  Contains(Lower(n), term) /\ ~HasWord(Lower(n), term)
\* per query of one term, the scores of the other names that have the term
\* only inside a larger word, and of those among them that do not start with
\* the query
SubstringScores ==
  Tabulate(LAMBDA q : {calculate_relevance_score(n, q) : n \in {m \in OtherNames : SubstringOnly(m, q)}},
           OneTermQuerySeq, Len(OneTermQuerySeq))
SubstringInsideScores ==
  Tabulate(LAMBDA q : {calculate_relevance_score(n, q) :
                         n \in {m \in OtherNames : SubstringOnly(m, q) /\ ~StartsWith(Lower(m), Lower(q))}},
           OneTermQuerySeq, Len(OneTermQuerySeq))

\* C12 as the claim states it: for a query of one term, a name that has the
\* term as a whole word scores strictly higher than every name that has it
\* only as part of a larger word.
C12_WholeWordAboveSubstring ==
  (pc = "scored" /\ OneTerm(query) /\ WholeWords(product_name, query)) =>
    \A s \in SubstringScores[IndexOf(OneTermQuerySeq, query)] : RLt(s, score)

\* C12, amended: for a query of one term, a name that has the term as a whole
\* word and is not a disqualified name under a Fresh Produce query scores at
\* least 0.05 and strictly higher than every name that has the term only
\* inside a larger word and does not start with the query; such a name
\* scores 0.  So "Green Peas 500g" scores higher than "Chickpeas 500g" for
\* "peas".
C12_WholeWordAboveInside ==
  (pc = "scored" /\ OneTerm(query)) =>
    /\ ( /\ WholeWords(product_name, query)
         /\ ~(classify_text(query) = "Fresh Produce" /\ Disqualified(product_name)) ) =>
         /\ RLe(Rat(5, 100), score)
         /\ \A s \in SubstringInsideScores[IndexOf(OneTermQuerySeq, query)] : RLt(s, score)
    /\ (SubstringOnly(product_name, query) /\ ~StartsWith(Lower(product_name), Lower(query))) =>
         score = <<0, 1>>
    /\ (product_name = E.GreenPeas /\ query = Q.peas) =>
         RLt(calculate_relevance_score(E.Chickpeas, Q.peas), score)

\* "Green Peas 500g" is scored for "peas", and names with "peas" inside a
\* larger word score lower; and for "onion" the whole-word name "Onion Chips
\* 150g" scores 0, below "Onions Red" with its prefix bonus
C12_Witness ==
  /\ pc = "scored"
  /\ query = Q.peas
  /\ product_name = E.GreenPeas
  /\ score = Rat(15, 100)
  /\ SubstringInsideScores[2] = {<<0, 1>>}
  /\ Rat(2, 10) \in SubstringScores[1]

(***************************************************************************)
(* group_parsed_products: claim C13, under Spec                            *)
(***************************************************************************)
\* the listings of all clusters, in cluster order
RECURSIVE Flatten(_)
Flatten(cs) == IF cs = <<>> THEN <<>> ELSE Head(cs) \o Flatten(Tail(cs))
\* the number of times x occurs in the sequence
Count(x, seq) == Cardinality({i \in DOMAIN seq : seq[i] = x})
\* the argument of group_parsed_products
GroupedListings == IF pc = "grouped" THEN parsed ELSE AllParsed(store_results, 1)

\* C13: group_parsed_products emits exactly one group per cluster, in cluster
\* order; the clusters partition the parsed listings (every listing is in
\* exactly one cluster, no cluster is empty), and a cluster of one store is
\* emitted like any other.
C13_OneGroupPerCluster ==
  Grouped =>
    LET all == Flatten(clusters)
    IN  /\ Len(groups) = Len(clusters)
        /\ Len(all) = Len(GroupedListings)
        /\ \A k \in DOMAIN all : Count(all[k], all) = Count(all[k], GroupedListings)
        /\ \A i \in DOMAIN clusters :
             /\ clusters[i] # <<>>
             /\ groups[i].matched_name = clusters[i][1].original_name
             /\ DOMAIN groups[i].stores = {clusters[i][k].store : k \in DOMAIN clusters[i]}

\* three listings in two clusters: one of two listings, and one whose only
\* listing makes a group with a single store
C13_Witness ==
  /\ Grouped
  /\ Len(GroupedListings) = 3
  /\ Len(clusters) = 2
  /\ \E i, j \in DOMAIN clusters :
       /\ Len(clusters[i]) = 2
       /\ Len(clusters[j]) = 1
       /\ Cardinality(DOMAIN groups[j].stores) = 1

(***************************************************************************)
(* sort_products: claim C14, under SpecSort                                *)
(***************************************************************************)
\* a comes no later than b in non-decreasing unit price, absent being +infinity
PriceOrdered(a, b) ==
  \/ b.normalized_unit_price = None
  \/ /\ a.normalized_unit_price # None
     /\ RLe(a.normalized_unit_price, b.normalized_unit_price)

\* C14: sort_products(groups, "price", ascending) returns a permutation of
\* the groups in non-decreasing normalized_unit_price, the groups without a
\* unit price after all that have one.
C14_PriceAscending ==
  (pc = "matched" /\ sort_by = "price" /\ ascending) =>
    /\ Len(sorted_products) = Len(matched_products)
    /\ \A k \in DOMAIN sorted_products :
         Count(sorted_products[k], sorted_products) = Count(sorted_products[k], matched_products)
    /\ \A i, j \in DOMAIN sorted_products :
         i < j => PriceOrdered(sorted_products[i], sorted_products[j])

\* three groups ranked by relevance in another order than by price, one of
\* them without a unit price
C14_Witness ==
  /\ pc = "matched"
  /\ sort_by = "price"
  /\ ascending
  /\ Len(matched_products) = 3
  /\ sorted_products # matched_products
  /\ sorted_products[3].normalized_unit_price = None
  /\ matched_products[3].normalized_unit_price # None
  /\ sorted_products[1].normalized_unit_price # None

(***************************************************************************)
(* extract_quantity: claims C15 to C18, under SpecQuantity                 *)
(***************************************************************************)
\* the parenthesized quantities of the names, with the value and the
\* canonical unit they denote
ParenQuantities ==
  { [text |-> <<"(","2","2","0","-","2","5","0","g",")">>, value |-> <<235, 1>>, unit |-> <<"g">>],
    [text |-> <<"(","1",".","5","k","g",")">>, value |-> <<3, 2>>, unit |-> <<"k","g">>],
    [text |-> <<"(","6"," ","p","a","c","k",")">>, value |-> <<6, 1>>, unit |-> <<"p","c","s">>],
    [text |-> <<"(","5","0","0"," ","M","L",")">>, value |-> <<500, 1>>, unit |-> <<"m","l">>] }

\* C15 as the claim states it: a name with a parenthesized number or range
\* followed by a recognized unit yields that quantity (the midpoint of a
\* range) with its canonical unit, whatever stands outside the parentheses.
C15_ParenthesizedPreferred ==
  pc = "extracted" =>
    \A p \in ParenQuantities :
      ( /\ Contains(product_name, p.text)
        /\ \A o \in ParenQuantities \ {p} : ~Contains(product_name, o.text) ) =>
        quantity = [value |-> p.value, unit |-> p.unit]

\* "2 pieces (1.5kg)": the count outside the parentheses multiplies the
\* parenthesized size
C15_ParenMultiplied ==
  /\ pc = "extracted"
  /\ product_name = <<"2"," ","p","i","e","c","e","s"," ","(","1",".","5","k","g",")">>
  /\ quantity = [value |-> <<3, 1>>, unit |-> <<"k","g">>]

\* C16: a name that is a range "A-Bunit" yields the value (A+B)/2 with the
\* canonical unit, never an endpoint or a product.
C16_RangeMidpoint ==
  pc = "extracted" =>
    \A r \in Ranges :
      product_name = r.text =>
        quantity = [value |-> RDiv(RAdd(r.low, r.high), <<2, 1>>), unit |-> r.unit]

\* "0.9-1kg" yields (0.95, kg)
C16_Witness ==
  /\ pc = "extracted"
  /\ product_name = <<"0",".","9","-","1","k","g">>
  /\ quantity = [value |-> <<19, 20>>, unit |-> <<"k","g">>]

\* the quantity of the first number-and-unit of the name read as a single
\* unit: the parenthesized one if there is one, else the leftmost
SingleUnitQuantity(product) ==
  LET name == Lower(product)
      paren_match == Search(paren_pattern, name)
      match == Search(patterns[Len(patterns)][1], name)
  IN  IF paren_match.b # 0
        THEN [value |-> RangeValue(Group(name, paren_match, 1)),
              unit |-> NormalizeUnitParen(Group(name, paren_match, 2))]
      ELSE IF match.b # 0
        THEN [value |-> RangeValue(Group(name, match, 1)),
              unit |-> NormalizeUnit(Group(name, match, 2))]
      ELSE NoQuantity
\* some multipack pattern matches the name
MultipackMatches(product) ==
  \E k \in DOMAIN patterns : patterns[k][2] /\ Search(patterns[k][1], Lower(product)).b # 0

\* C17: if "approx" occurs in the name, no multipack multiplication is
\* applied: the result is the single-unit quantity found in the name, and
\* "Seed Potato - 750g - Approx 4 pieces per KG" gives (750, g).
C17_ApproxSingleUnit ==
  (pc = "extracted" /\ Contains(Lower(product_name), <<"a","p","p","r","o","x">>)) =>
    /\ quantity = SingleUnitQuantity(product_name)
    /\ product_name = <<"S","e","e","d"," ","P","o","t","a","t","o"," ","-"," ","7","5","0","g"," ","-"," ","A","p","p","r","o","x"," ","4"," ","p","i","e","c","e","s"," ","p","e","r"," ","K","G">> =>
         quantity = [value |-> <<750, 1>>, unit |-> <<"g">>]

\* a name with "approx" that a multipack pattern matches, COUNT ... SIZE with
\* 4 pieces and 500g: the result is the single unit (4, pcs), not 2000 g
C17_Witness ==
  /\ pc = "extracted"
  /\ product_name = <<" ","-"," ","A","p","p","r","o","x"," ","4"," ","p","i","e","c","e","s"," ","p","e","r"," ","K","G","5","0","0","g">>
  /\ MultipackMatches(product_name)
  /\ quantity = [value |-> <<4, 1>>, unit |-> <<"p","c","s">>]

\* the first multipack pattern that matches the name, 0 if none
FirstMultipack(product) ==
  LET ks == {k \in DOMAIN patterns :
               patterns[k][2] /\ Search(patterns[k][1], Lower(product)).b # 0}
  IN  IF ks = {} THEN 0 ELSE CHOOSE k \in ks : \A j \in ks : k <= j
\* the size and count components of that match, by the layout of the pattern:
\* SIZE unit COUNT for patterns 1, 3 and 4, COUNT SIZE unit for 2 and 5
MultipackParts(product) ==
  LET name == Lower(product)
      k == FirstMultipack(product)
      match == Search(patterns[k][1], name)
  IN  IF k \in {1, 3, 4}
        THEN [size |-> Float(Group(name, match, 1)), count |-> Float(Group(name, match, 3))]
        ELSE [size |-> Float(Group(name, match, 2)), count |-> Float(Group(name, match, 1))]

\* C18: when a multipack pattern matches (no parenthesized quantity, no
\* "approx"), the value is the size if size and count are equal, and size
\* times count if they differ.
C18_MultipackProduct ==
  (/\ pc = "extracted"
   /\ Search(paren_pattern, Lower(product_name)).b = 0
   /\ ~Contains(Lower(product_name), <<"a","p","p","r","o","x">>)
   /\ FirstMultipack(product_name) # 0
   /\ MultipackParts(product_name).size # None
   /\ MultipackParts(product_name).count # None) =>
    LET parts == MultipackParts(product_name)
    IN  quantity.value = IF parts.size = parts.count THEN parts.size
                         ELSE RMul(parts.size, parts.count)

\* "500gm x 2" matches SIZE x COUNT with size 500 and count 2, and the result
\* is the size alone
C18_SizeNotMultiplied ==
  /\ pc = "extracted"
  /\ product_name = <<"5","0","0","g","m"," ","x"," ","2">>
  /\ FirstMultipack(product_name) = 1
  /\ MultipackParts(product_name) = [size |-> <<500, 1>>, count |-> <<2, 1>>]
  /\ quantity = [value |-> <<500, 1>>, unit |-> <<"g">>]

\* the equal case: "Product 30 Pieces - 30 Pieces" is (30, pcs)
C18_EqualNotMultiplied ==
  /\ pc = "extracted"
  /\ product_name = <<"P","r","o","d","u","c","t"," ","3","0"," ","P","i","e","c","e","s"," ","-"," ","3","0"," ","P","i","e","c","e","s">>
  /\ MultipackParts(product_name) = [size |-> <<30, 1>>, count |-> <<30, 1>>]
  /\ quantity = [value |-> <<30, 1>>, unit |-> <<"p","c","s">>]

(***************************************************************************)
(* normalize_quantity: claim C19                                           *)
(***************************************************************************)
\* value or unit is absent (None, 0, the empty string)
Absent(q) == q.value = None \/ q.value = <<0, 1>> \/ q.unit = None \/ q.unit = <<>>

C20_WitnessPrice == pc = "matched" /\ sort_by = "price" /\ ascending /\ sorted_products # matched_products
C20_WitnessQuantity == pc = "matched" /\ sort_by = "quantity" /\ sorted_products # matched_products

(***************************************************************************)
(* the clustering loop: claim C21, under SpecCluster                       *)
(***************************************************************************)
\* the index of the earliest-created cluster whose first member has
\* similarity >= 0.8 with the listing, 0 if there is none
EarliestCluster(cs, listing) ==
  LET fit == {c \in DOMAIN cs :
                RLe(threshold, SimilarityOf(cs[c][1].original_name, listing.original_name))}
  IN  IF fit = {} THEN 0 ELSE CHOOSE c \in fit : \A e \in fit : c <= e
\* the greedy single pass over the first k listings of a bucket
RECURSIVE GreedyPass(_, _)
GreedyPass(items, k) ==
  IF k = 0 THEN <<>>
  ELSE LET cs == GreedyPass(items, k - 1)
           c == EarliestCluster(cs, items[k])
       IN  IF c = 0 THEN Append(cs, <<items[k]>>)
           ELSE [cs EXCEPT ![c] = Append(@, items[k])]
\* the greedy passes of all buckets, in bucket order
RECURSIVE GreedyAll(_, _, _)
GreedyAll(parsed_products, keys, k) ==
  IF k > Len(keys) THEN <<>>
  ELSE LET items == BucketItems(parsed_products, keys[k])
       IN  GreedyPass(items, Len(items)) \o GreedyAll(parsed_products, keys, k + 1)

\* C21: within every bucket the clusters of the clustering loop are those of
\* the greedy single pass: in listing order, a listing joins the
\* earliest-created cluster whose first member has similarity >= 0.8 with
\* it, else it starts a new cluster.
C21_GreedySinglePass ==
  pc = "grouped" =>
    clusters = GreedyAll(parsed, BucketKeys(parsed, <<>>), 1)

\* a chain of three names: the second is similar to the first and the third
\* to the second, but not to the first, so the third starts a cluster
C21_Witness ==
  /\ pc = "grouped"
  /\ Len(parsed) = 3
  /\ parsed[1].original_name = N.AinCup
  /\ parsed[2].original_name = N.AinCupBox
  /\ parsed[3].original_name = N.AinCupBoxSet
  /\ BucketKey(parsed[1]) = BucketKey(parsed[2])
  /\ BucketKey(parsed[2]) = BucketKey(parsed[3])
  /\ RLe(threshold, SimilarityOf(N.AinCupBox, N.AinCupBoxSet))
  /\ clusters = << <<parsed[1], parsed[2]>>, <<parsed[3]>> >>

\* a listing similar to the first members of two clusters joins the earlier
C21_WitnessEarliest ==
  /\ pc = "grouped"
  /\ Len(parsed) = 3
  /\ parsed[1].original_name = N.AinCup
  /\ parsed[2].original_name = N.CupBox
  /\ parsed[3].original_name = N.AinCupBox
  /\ BucketKey(parsed[1]) = BucketKey(parsed[2])
  /\ BucketKey(parsed[2]) = BucketKey(parsed[3])
  /\ RLe(threshold, SimilarityOf(N.CupBox, N.AinCupBox))
  /\ clusters = << <<parsed[1], parsed[3]>>, <<parsed[2]>> >>

(***************************************************************************)
(* extract_quantity, explicit and implicit multipacks: claims C22 and C23  *)
(***************************************************************************)
\* C22: when SIZE x COUNT matches (no parenthesized quantity, no "approx",
\* size different from count), the result is size times count in the
\* canonical unit of the size, for every spelling of the unit.
C22_SizeTimesCount ==
  LET name == Lower(product_name)
      match == Search(patterns[1][1], name)
      size == Float(Group(name, match, 1))
      count == Float(Group(name, match, 3))
  IN  (/\ pc = "extracted"
       /\ Search(paren_pattern, name).b = 0
       /\ ~Contains(name, <<"a","p","p","r","o","x">>)
       /\ match.b # 0
       /\ size # None /\ count # None /\ size # count) =>
        quantity = [value |-> RMul(size, count),
                    unit |-> NormalizeUnit(Group(name, match, 2))]

\* "1 litres x 2" matches SIZE x COUNT with size 1, unit "litres" and count 2,
\* and the result is 1 l
C22_LitresNotMultiplied ==
  /\ pc = "extracted"
  /\ product_name = <<"1"," ","l","i","t","r","e","s"," ","x"," ","2">>
  /\ Search(patterns[1][1], Lower(product_name)).b # 0
  /\ Group(Lower(product_name), Search(patterns[1][1], Lower(product_name)), 2) = <<"l","i","t","r","e","s">>
  /\ quantity = [value |-> <<1, 1>>, unit |-> <<"l">>]

\* "1kg x 2" is (2, kg)
C22_KgMultiplied ==
  /\ pc = "extracted"
  /\ product_name = <<"1","k","g"," ","x"," ","2">>
  /\ quantity = [value |-> <<2, 1>>, unit |-> <<"k","g">>]

\* SIZE ... COUNT as its comment describes it, the count being digits:
\* (\d+\.?\d*)\s* units_regex (?!.*\d+-\d+).*?(?<!-)(\d+)(?!-)\s*(?:packs?|pcs|pieces?|sets?)\b
ImplicitSizeCount ==
  Seq_(<<Grp(1, Num), Ws, UnitsRegex(2),
         NotAhead(Seq_(<<Star(AnyCh), Plus(Digit), Lit(<<"-">>), Plus(Digit)>>)),
         LazyStar(AnyCh),
         NotBehind(Lit(<<"-">>), 1),
         Grp(3, Plus(Digit)),
         NotAhead(Lit(<<"-">>)),
         Ws,
         Alt(<<Seq_(<<Lit(<<"p","a","c","k">>), Opt(Lit(<<"s">>))>>), Lit(<<"p","c","s">>),
               Seq_(<<Lit(<<"p","i","e","c","e">>), Opt(Lit(<<"s">>))>>),
               Seq_(<<Lit(<<"s","e","t">>), Opt(Lit(<<"s">>))>>)>>),
         WordB>>)

\* C23: when a size with unit is followed later by a count that is not part
\* of a range and carries a pack/pcs/pieces/sets keyword (no parenthesized
\* quantity, no "approx", no explicit 'x' multipack, size different from
\* count), the result is size times count in the unit of the size.
C23_ImplicitSizeCount ==
  LET name == Lower(product_name)
      match == Search(ImplicitSizeCount, name)
      size == Float(Group(name, match, 1))
      count == Float(Group(name, match, 3))
  IN  (/\ pc = "extracted"
       /\ Search(paren_pattern, name).b = 0
       /\ ~Contains(name, <<"a","p","p","r","o","x">>)
       /\ Search(patterns[1][1], name).b = 0
       /\ Search(patterns[2][1], name).b = 0
       /\ match.b # 0
       /\ size # None /\ count # None /\ size # count) =>
        quantity = [value |-> RMul(size, count),
                    unit |-> NormalizeUnit(Group(name, match, 2))]

\* "21g 6 PCS": a size of 21 g followed by the count 6 with the keyword PCS;
\* SIZE ... COUNT of the source does not match it and the result is 21 g
C23_CountIgnored ==
  /\ pc = "extracted"
  /\ product_name = <<"2","1","g"," ","6"," ","P","C","S">>
  /\ Search(patterns[3][1], Lower(product_name)).b = 0
  /\ Search(ImplicitSizeCount, Lower(product_name)).b # 0
  /\ Float(Group(Lower(product_name), Search(ImplicitSizeCount, Lower(product_name)), 1)) = <<21, 1>>
  /\ Float(Group(Lower(product_name), Search(ImplicitSizeCount, Lower(product_name)), 3)) = <<6, 1>>
  /\ quantity = [value |-> <<21, 1>>, unit |-> <<"g">>]

(***************************************************************************)
(* /match without sort_by: claim C24                                       *)
(***************************************************************************)
\* C24: a /match request without sort_by returns the ranking of
\* match_products, which is in non-increasing order of relevance_score.
C24_DefaultRelevanceOrder ==
  (pc = "matched" /\ sort_by = NoSortBy) =>
    /\ sorted_products = matched_products
    /\ \A i, j \in DOMAIN sorted_products :
         i < j => ~RLt(sorted_products[i].relevance_score, sorted_products[j].relevance_score)

\* a request without sort_by whose response has a group of lower relevance
\* before one of higher relevance: the groups are in order of unit price
C24_PriceOrderReturned ==
  /\ pc = "matched"
  /\ sort_by = NoSortBy
  /\ ascending
  /\ sorted_products # matched_products
  /\ sorted_products = sort_products(matched_products, "price", TRUE)
  /\ \E i, j \in DOMAIN sorted_products :
       i < j /\ RLt(sorted_products[i].relevance_score, sorted_products[j].relevance_score)

\* the ranking of match_products is relevance first, and a request for an
\* ordering that sort_products does not know returns it
C24_RankingOfMatchProducts ==
  /\ pc = "matched"
  /\ sort_by = "relevance"
  /\ Len(matched_products) >= 2
  /\ sorted_products = matched_products
  /\ RLt(matched_products[2].relevance_score, matched_products[1].relevance_score)

(***************************************************************************)
(* save_search_results and record_price                                    *)
(***************************************************************************)
\* the groups save_search_results is called with: one store with a price,
\* the same group at another price, a store without a price, a group
\* without a name, and a group whose second store has a price that is a list
DbGroups ==
  { [matched_name |-> N.NestleMilk1L,
     stores |-> ("carrefour" :> [name |-> N.NestleMilk1L, price |-> <<10, 1>>])],
    [matched_name |-> N.NestleMilk1L,
     stores |-> ("carrefour" :> [name |-> N.NestleMilk1L, price |-> <<12, 1>>])],
    [matched_name |-> N.AlmaraiMilk,
     stores |-> ("carrefour" :> [name |-> N.AlmaraiMilk, price |-> None]) @@
                ("noon" :> [name |-> N.AlmaraiFreshMilk, price |-> <<12, 1>>])],
    [matched_name |-> <<>>, stores |-> <<>>],
    [matched_name |-> N.OnionsRed,
     stores |-> ("carrefour" :> [name |-> N.OnionsRed, price |-> <<10, 1>>]) @@
                ("noon" :> [name |-> N.OnionsRed, price |-> <<"[list]">>])] }
\* the longest list of groups of one call, and the last day
MaxSaved == 2
MaxDay == 2

\* date.today() moves on
Tick ==
  /\ today < MaxDay
  /\ today' = today + 1
  /\ UNCHANGED <<matchVars, db, conn, statusVars, poolVars>>

\* save_search_results(matched_products) up to the entry of the with block:
\* the return for an empty list, today = date.today(), the connection
SaveBegin(products) ==
  /\ conn.state = "closed"
  /\ conn' = IF products = <<>> THEN NoConnection
             ELSE [state |-> "open", work |-> db, matched_products |-> products, i |-> 0,
                   today |-> today, saved_count |-> 0, raised |-> FALSE]
  /\ UNCHANGED <<matchVars, db, today, statusVars, poolVars>>

\* one turn of the loop over matched_products, i groups being done; an
\* exception leaves the loop
SaveStep ==
  /\ conn.state = "open"
  /\ conn.i < Len(conn.matched_products)
  /\ LET r == SaveProduct(conn.work, conn.matched_products[conn.i + 1], conn.today)
     IN  conn' = IF r.raised
                   THEN [conn EXCEPT !.state = "raised", !.work = r.db]
                   ELSE [conn EXCEPT !.work = r.db, !.i = @ + 1,
                                     !.saved_count = @ + r.saved]
  /\ UNCHANGED <<matchVars, db, today, statusVars, poolVars>>

\* get_db_connection after the yield when the block ended with an exception:
\* conn.commit() instead of conn.rollback() (not the source's)
RollbackCommits ==
  /\ conn.state = "raised"
  /\ db' = conn.work
  /\ conn' = [conn EXCEPT !.state = "closed", !.work = EmptyDb, !.raised = TRUE]
  /\ UNCHANGED <<matchVars, today, statusVars, poolVars>>

\* get_db_connection after the yield when the block ended with an exception:
\* conn.rollback(), raise e, conn.close()
Rollback ==
  /\ conn.state = "raised"
  /\ db' = db
  /\ conn' = [conn EXCEPT !.state = "closed", !.work = EmptyDb, !.raised = TRUE]
  /\ UNCHANGED <<matchVars, today, statusVars, poolVars>>

\* get_db_connection after the yield when the block ended: conn.commit(),
\* conn.close(); save_search_results returns saved_count
Commit ==
  /\ conn.state = "open"
  /\ conn.i = Len(conn.matched_products)
  /\ db' = conn.work
  /\ conn' = [conn EXCEPT !.state = "closed", !.work = EmptyDb]
  /\ UNCHANGED <<matchVars, today, statusVars, poolVars>>

InitDb ==
  /\ store_results = <<>>
  /\ query = <<>>
  /\ parsed = <<>>
  /\ pc = "db"
  /\ clusters = <<>>
  /\ groups = <<>>
  /\ matched_products = <<>>
  /\ product_name = <<>>
  /\ score = None
  /\ sort_by = "price"
  /\ ascending = TRUE
  /\ sorted_products = <<>>
  /\ quantity = NoQuantity
  /\ normalized = None
  /\ db = EmptyDb
  /\ conn = NoConnection
  /\ today = 1
  /\ search_status = ReadyStatus
  /\ requests = NoRequests
  /\ browser_pool = EmptyPool
  /\ threads = NoThreads
  /\ drivers = <<>>
NextDb ==
  \/ Tick
  \/ \E products \in UNION {[1..k -> DbGroups] : k \in 0..MaxSaved} : SaveBegin(products)
  \/ SaveStep
  \/ Rollback
  \/ Commit
SpecDb == InitDb /\ [][NextDb]_vars

\* the calls of record_price: store product, price and effective date.  The
\* first store product has two prices on each of MaxDate days, the second one
\* price on the first two days
MaxDate == 3
PriceCalls ==
  ({1} \X {<<10, 1>>, <<12, 1>>} \X (1..MaxDate)) \cup ({2} \X {<<10, 1>>} \X (1..2))

\* a call of record_price in a transaction of its own
RecordPriceCall(store_product_id, price, effective_date) ==
  /\ conn.state = "closed"
  /\ db' = [db EXCEPT !.price_history = record_price(@, store_product_id, price, effective_date)]
  /\ UNCHANGED <<matchVars, conn, today, statusVars, poolVars>>

\* one product at two stores, no price recorded yet
InitPrice ==
  /\ store_results = <<>>
  /\ query = <<>>
  /\ parsed = <<>>
  /\ pc = "db"
  /\ clusters = <<>>
  /\ groups = <<>>
  /\ matched_products = <<>>
  /\ product_name = <<>>
  /\ score = None
  /\ sort_by = "price"
  /\ ascending = TRUE
  /\ sorted_products = <<>>
  /\ quantity = NoQuantity
  /\ normalized = None
  /\ db = [products |-> <<N.NestleMilk1L>>,
           store_products |->
             <<[product_id |-> 1, store_name |-> "carrefour", store_product_name |-> N.NestleMilk1L],
               [product_id |-> 1, store_name |-> "noon", store_product_name |-> N.NestleMilk1L]>>,
           price_history |-> <<>>]
  /\ conn = NoConnection
  /\ today = 1
  /\ search_status = ReadyStatus
  /\ requests = NoRequests
  /\ browser_pool = EmptyPool
  /\ threads = NoThreads
  /\ drivers = <<>>
NextPrice ==
  \E call \in PriceCalls : RecordPriceCall(call[1], call[2], call[3])
SpecPrice == InitPrice /\ [][NextPrice]_vars

(***************************************************************************)
(* record_price: claims C25 and C26                                        *)
(***************************************************************************)
\* the rows of price_history of one store product
RowsOf(price_history, store_product_id) ==
  {i \in DOMAIN price_history : price_history[i].store_product_id = store_product_id}

\* C25: after any sequence of record_price calls, in any order of dates, a
\* store product with a price has exactly one row with is_current = 1, the row
\* with the latest effective_date.
C25_OneCurrentLatest ==
  \A sp \in DOMAIN db.store_products :
    LET ph == db.price_history
        rows == RowsOf(ph, sp)
    IN  rows # {} =>
          \E i \in rows :
            /\ ph[i].is_current = 1
            /\ \A j \in rows \ {i} :
                 ph[j].effective_date < ph[i].effective_date /\ ph[j].is_current = 0

\* a price recorded for day 2 and then one for day 1: both rows are current
C25_TwoCurrent ==
  db.price_history =
    <<[store_product_id |-> 1, price |-> <<10, 1>>, effective_date |-> 2, is_current |-> 1],
      [store_product_id |-> 1, price |-> <<12, 1>>, effective_date |-> 1, is_current |-> 1]>>

\* in order of dates the claim is met: day 1, then day 2
C25_InOrder ==
  db.price_history =
    <<[store_product_id |-> 1, price |-> <<10, 1>>, effective_date |-> 1, is_current |-> 0],
      [store_product_id |-> 1, price |-> <<12, 1>>, effective_date |-> 2, is_current |-> 1]>>

\* C26: price_history has at most one row per store product and date; a
\* record_price for a store product and date that have a row sets the price
\* of that row and adds no row, and otherwise adds one row with the price.
C26_OneRowPerDate ==
  [][\A call \in PriceCalls :
       RecordPriceCall(call[1], call[2], call[3]) =>
         LET before == db.price_history
             after == db'.price_history
             SameDay(ph) == {i \in RowsOf(ph, call[1]) : ph[i].effective_date = call[3]}
         IN  /\ \A i, j \in DOMAIN after :
                  (/\ after[i].store_product_id = after[j].store_product_id
                   /\ after[i].effective_date = after[j].effective_date) => i = j
             /\ Len(after) = Len(before) + (IF SameDay(before) = {} THEN 1 ELSE 0)
             /\ \A i \in SameDay(after) : after[i].price = call[2]
             /\ SameDay(after) # {}
             /\ SameDay(before) \subseteq SameDay(after)]_vars

\* a second record_price for day 1, after a price for day 2 was recorded: the
\* row of day 1, still the first row, has the second price and the table has
\* two rows
C26_Replaced ==
  /\ Len(db.price_history) = 2
  /\ db.price_history[1] =
       [store_product_id |-> 1, price |-> <<12, 1>>, effective_date |-> 1, is_current |-> 1]
  /\ db.price_history[2].effective_date = 2

\* the same in the database of save_search_results: no two rows of one store
\* product and date, over searches repeated on one day and on the next
C26_OneRowPerDateSaved ==
  \A i, j \in DOMAIN db.price_history :
    (/\ db.price_history[i].store_product_id = db.price_history[j].store_product_id
     /\ db.price_history[i].effective_date = db.price_history[j].effective_date) => i = j

(***************************************************************************)
(* save_search_results: claim C29                                          *)
(***************************************************************************)
\* the price the call leaves for a group's store: that of the last group of
\* the list with the same name and a price for the store
LastPrice(products, name, store) ==
  LET js == {j \in DOMAIN products :
               /\ products[j].matched_name = name
               /\ store \in DOMAIN products[j].stores
               /\ products[j].stores[store].price # None}
  IN  products[CHOOSE j \in js : \A k \in js : k <= j].stores[store].price

\* C29: the database does not change while a call of save_search_results is
\* in its loop; when the loop raises, the call ends with the database as it
\* was and the exception propagates; when the loop ends, the call ends with
\* the rows of all its groups in the database.
C29_AllOrNothing ==
  [][/\ (conn.state # "closed" /\ conn'.state # "closed") => db' = db
     /\ (conn.state = "raised" /\ conn'.state = "closed") => (db' = db /\ conn'.raised)
     /\ (conn.state = "open" /\ conn'.state = "closed") =>
          /\ ~conn'.raised
          /\ db' = SaveProducts(db, conn.matched_products, 1, conn.today).db
          /\ \A g \in DOMAIN conn.matched_products :
               LET product == conn.matched_products[g]
                   product_id == ProductId(db'.products, product.matched_name)
               IN  product.matched_name # <<>> =>
                     /\ product_id # 0
                     /\ \A store \in DOMAIN product.stores :
                          product.stores[store].price # None =>
                            \E i \in DOMAIN db'.price_history :
                              /\ db'.price_history[i].store_product_id =
                                   StoreProductId(db'.store_products, product_id, store)
                              /\ db'.price_history[i].effective_date = conn.today
                              /\ db'.price_history[i].price =
                                   LastPrice(conn.matched_products, product.matched_name, store)
                              /\ db'.price_history[i].is_current = 1]_vars

\* a call that raised in its second group, after it wrote the rows of the
\* first: the exception is in flight and the database has none of the rows
C29_RaisedAfterWrites ==
  /\ conn.state = "raised"
  /\ conn.i = 1
  /\ db = EmptyDb
  /\ Len(conn.work.products) = 2
  /\ Len(conn.work.store_products) = 3
  /\ Len(conn.work.price_history) = 2

\* the call has ended with the exception after the first of its two groups
\* was written, and the database has no row
C29_RolledBack ==
  /\ conn.state = "closed"
  /\ conn.raised
  /\ conn.i = 1
  /\ conn.matched_products[1].matched_name = N.NestleMilk1L
  /\ conn.matched_products[2].matched_name = N.OnionsRed
  /\ db = EmptyDb

\* a call that returned 2 has the rows of both its groups
C29_Committed ==
  /\ conn.state = "closed"
  /\ conn.saved_count = 2
  /\ Len(db.products) = 2
  /\ Len(db.price_history) = 2

(***************************************************************************)
(* /search and the search status table                                     *)
(***************************************************************************)
\* search() up to the submission of the five searches: the reset of
\* _search_status, then the executor with a worker for every store
SearchBegin(r) ==
  /\ requests[r].pc = "idle"
  /\ search_status' = ReadyStatus
  /\ requests' = [requests EXCEPT ![r] = [pc |-> "running",
                                          workers |-> [s \in Stores |-> "submitted"]]]
  /\ UNCHANGED <<matchVars, dbVars, poolVars>>

\* search() with no item: the 400 response, before the reset
SearchRejected(r) ==
  /\ requests[r].pc = "idle"
  /\ requests' = [requests EXCEPT ![r].pc = "rejected"]
  /\ UNCHANGED <<matchVars, dbVars, search_status, poolVars>>

\* the first statement of search_<store>: _search_status[store] = 'searching'
WorkerStart(r, s) ==
  /\ requests[r].workers[s] = "submitted"
  /\ search_status' = [search_status EXCEPT ![s] = "searching"]
  /\ requests' = [requests EXCEPT ![r].workers[s] = "searching"]
  /\ UNCHANGED <<matchVars, dbVars, poolVars>>

\* search_<store> from there to its return, on any of its paths:
\* _search_status[store] = 'complete'
WorkerFinish(r, s) ==
  /\ requests[r].workers[s] = "searching"
  /\ search_status' = [search_status EXCEPT ![s] = "complete"]
  /\ requests' = [requests EXCEPT ![r].workers[s] = "done"]
  /\ UNCHANGED <<matchVars, dbVars, poolVars>>

\* search() after the five results: the response
SearchReturn(r) ==
  /\ requests[r].pc = "running"
  /\ \A s \in Stores : requests[r].workers[s] = "done"
  /\ requests' = [requests EXCEPT ![r].pc = "returned"]
  /\ UNCHANGED <<matchVars, dbVars, search_status, poolVars>>

InitSearch ==
  /\ store_results = <<>>
  /\ query = <<>>
  /\ parsed = <<>>
  /\ pc = "app"
  /\ clusters = <<>>
  /\ groups = <<>>
  /\ matched_products = <<>>
  /\ product_name = <<>>
  /\ score = None
  /\ sort_by = "price"
  /\ ascending = TRUE
  /\ sorted_products = <<>>
  /\ quantity = NoQuantity
  /\ normalized = None
  /\ db = EmptyDb
  /\ conn = NoConnection
  /\ today = 1
  /\ search_status = ReadyStatus
  /\ requests = NoRequests
  /\ browser_pool = EmptyPool
  /\ threads = NoThreads
  /\ drivers = <<>>
NextSearch ==
  \/ \E r \in 1..MaxRequests : SearchBegin(r)
  \/ \E r \in 1..MaxRequests : SearchRejected(r)
  \/ \E r \in 1..MaxRequests, s \in Stores : WorkerStart(r, s)
  \/ \E r \in 1..MaxRequests, s \in Stores : WorkerFinish(r, s)
  \/ \E r \in 1..MaxRequests : SearchReturn(r)
SpecSearch == InitSearch /\ [][NextSearch]_vars

(***************************************************************************)
(* the search status table: claim C27                                      *)
(***************************************************************************)
\* C27: when a /search request returns its results the status of each of the
\* five stores is 'complete', and while a request runs the status of a store
\* only moves from 'ready' to 'searching' and from 'searching' to 'complete',
\* in every interleaving of the requests and their workers.
C27_CompleteAtReturn ==
  [][/\ \A r \in 1..MaxRequests :
          (requests[r].pc = "running" /\ requests'[r].pc = "returned") =>
            \A s \in Stores : search_status[s] = "complete"
     /\ (\E r \in 1..MaxRequests : requests[r].pc = "running" /\ requests'[r].pc = "running") =>
          \A s \in Stores :
            \/ search_status'[s] = search_status[s]
            \/ search_status[s] = "ready" /\ search_status'[s] = "searching"
            \/ search_status[s] = "searching" /\ search_status'[s] = "complete"]_vars

\* the first request has its five results and is about to return while the
\* second, which reset the table after them, has a store that is not
\* complete
C27_ReturnsNotComplete ==
  /\ requests[1].pc = "running"
  /\ \A s \in Stores : requests[1].workers[s] = "done"
  /\ requests[2].pc = "running"
  /\ \E s \in Stores : search_status[s] # "complete"

\* the first request has returned and the table says 'searching'
C27_ReturnedWhileSearching ==
  /\ requests[1].pc = "returned"
  /\ requests[2].pc = "running"
  /\ search_status["carrefour"] = "searching"

\* a request on its own returns with every store complete
C27_AloneComplete ==
  /\ requests[1].pc = "returned"
  /\ requests[2].pc = "idle"
  /\ \A s \in Stores : search_status[s] = "complete"

(***************************************************************************)
(* get_or_create_browser and the browser pool.  drivers is the sequence of *)
(* the Chrome drivers created so far, each with the store it was created   *)
(* for and whether its browser is running; a driver is named by its        *)
(* position.                                                               *)
(***************************************************************************)
\* the most drivers created
MaxDrivers == 3

\* _browser_pool.get(store_name)
PoolGet(pool, store_name) ==
  IF store_name \in DOMAIN pool THEN pool[store_name] ELSE NoDriver
\* _browser_pool[store_name] = driver
PoolSet(pool, store_name, driver) ==
  [s \in DOMAIN pool \cup {store_name} |-> IF s = store_name THEN driver ELSE pool[s]]

\* the thread calls get_or_create_browser(store): the test of line 90,
\* _browser_pool.get(store_name) is not None
CheckPool(t) ==
  /\ threads[t].pc = "idle"
  /\ threads' = [threads EXCEPT ![t].pc =
                   IF PoolGet(browser_pool, t[2]) # NoDriver THEN "test" ELSE "create"]
  /\ UNCHANGED <<matchVars, dbVars, statusVars, browser_pool, drivers>>

\* the try block: current_url of the pool's driver answers and the driver is
\* returned, or raises and the entry is set to None
TestAlive(t) ==
  /\ threads[t].pc = "test"
  /\ LET driver == PoolGet(browser_pool, t[2])
     IN  IF driver # NoDriver /\ drivers[driver].running
           THEN /\ threads' = [threads EXCEPT ![t] = [pc |-> "done", driver |-> driver]]
                /\ UNCHANGED browser_pool
           ELSE /\ threads' = [threads EXCEPT ![t].pc = "create"]
                /\ browser_pool' = PoolSet(browser_pool, t[2], NoDriver)
  /\ UNCHANGED <<matchVars, dbVars, statusVars, drivers>>

\* driver = get_chrome_driver(): a new browser starts
CreateDriver(t) ==
  /\ threads[t].pc = "create"
  /\ Len(drivers) < MaxDrivers
  /\ drivers' = Append(drivers, [store |-> t[2], running |-> TRUE])
  /\ threads' = [threads EXCEPT ![t] = [pc |-> "loading", driver |-> Len(drivers) + 1]]
  /\ UNCHANGED <<matchVars, dbVars, statusVars, browser_pool>>

\* after the cookies and driver.get(base_url): _browser_pool[store_name] =
\* driver, and the driver is returned
StoreDriver(t) ==
  /\ threads[t].pc = "loading"
  /\ browser_pool' = PoolSet(browser_pool, t[2], threads[t].driver)
  /\ threads' = [threads EXCEPT ![t].pc = "done"]
  /\ UNCHANGED <<matchVars, dbVars, statusVars, drivers>>

\* the search of a store is over and the next /search starts its worker
NextSearchWorker(t) ==
  /\ t[1] = "search"
  /\ threads[t].pc = "done"
  /\ threads' = [threads EXCEPT ![t] = [pc |-> "idle", driver |-> NoDriver]]
  /\ UNCHANGED <<matchVars, dbVars, statusVars, browser_pool, drivers>>

\* a browser stops running (it crashed or its window was closed)
BrowserDies(d) ==
  /\ d \in DOMAIN drivers
  /\ drivers[d].running
  /\ drivers' = [drivers EXCEPT ![d].running = FALSE]
  /\ UNCHANGED <<matchVars, dbVars, statusVars, browser_pool, threads>>

InitPool ==
  /\ store_results = <<>>
  /\ query = <<>>
  /\ parsed = <<>>
  /\ pc = "app"
  /\ clusters = <<>>
  /\ groups = <<>>
  /\ matched_products = <<>>
  /\ product_name = <<>>
  /\ score = None
  /\ sort_by = "price"
  /\ ascending = TRUE
  /\ sorted_products = <<>>
  /\ quantity = NoQuantity
  /\ normalized = None
  /\ db = EmptyDb
  /\ conn = NoConnection
  /\ today = 1
  /\ search_status = ReadyStatus
  /\ requests = NoRequests
  /\ browser_pool = EmptyPool
  /\ threads = NoThreads
  /\ drivers = <<>>
NextPool ==
  \/ \E t \in PoolThreads : CheckPool(t)
  \/ \E t \in PoolThreads : TestAlive(t)
  \/ \E t \in PoolThreads : CreateDriver(t)
  \/ \E t \in PoolThreads : StoreDriver(t)
  \/ \E t \in PoolThreads : NextSearchWorker(t)
  \/ \E d \in 1..MaxDrivers : BrowserDies(d)
SpecPool == InitPool /\ [][NextPool]_vars

(***************************************************************************)
(* the browser pool: claim C28                                             *)
(***************************************************************************)
\* the running drivers created for a store
RunningFor(store) == {d \in DOMAIN drivers : drivers[d].store = store /\ drivers[d].running}

\* C28: every running browser of a store is the one in the pool or is in
\* the hands of the thread that is creating it, and a thread creates one only
\* when the pool has no running browser for the store; no driver that runs
\* is replaced in the pool.
C28_OneBrowserPerStore ==
  [][/\ \A store \in PoolStores :
          \A d \in RunningFor(store)' :
            \/ PoolGet(browser_pool', store) = d
            \/ \E t \in PoolThreads : threads'[t].pc = "loading" /\ threads'[t].driver = d
     /\ \A store \in PoolStores :
          LET old == PoolGet(browser_pool, store)
          IN  (old # NoDriver /\ PoolGet(browser_pool', store) # old) => ~drivers[old].running
     /\ \A t \in PoolThreads :
          (threads[t].pc = "create" /\ threads'[t].pc = "loading") =>
            LET held == PoolGet(browser_pool, t[2])
            IN  held = NoDriver \/ ~drivers[held].running]_vars

\* the preload thread and the search worker of Carrefour have each created
\* a browser; the pool has the second, and the first runs on with no
\* reference in the pool
C28_Overwritten ==
  /\ threads[<<"preload", "Carrefour">>].pc = "done"
  /\ threads[<<"search", "Carrefour">>].pc = "done"
  /\ Cardinality(RunningFor("Carrefour")) = 2
  /\ PoolGet(browser_pool, "Carrefour") \in RunningFor("Carrefour")
  /\ threads[<<"preload", "Carrefour">>].driver # threads[<<"search", "Carrefour">>].driver

\* one after the other, the second caller gets the browser of the first
C28_Reused ==
  /\ threads[<<"preload", "Carrefour">>].pc = "done"
  /\ threads[<<"search", "Carrefour">>].pc = "done"
  /\ Len(drivers) = 1
  /\ threads[<<"search", "Carrefour">>].driver = threads[<<"preload", "Carrefour">>].driver
  /\ PoolGet(browser_pool, "Carrefour") = 1

(***************************************************************************)
(* jaccard_similarity on equal names: claim C30                            *)
(***************************************************************************)
\* C30: every name has similarity 1 with itself, listings of one bucket with
\* the same name are in one cluster, and no two groups of one bucket have
\* the same matched_name.
C30_SameNameOneGroup ==
  pc = "grouped" =>
    /\ \A i \in DOMAIN parsed :
         SimilarityOf(parsed[i].original_name, parsed[i].original_name) = <<1, 1>>
    /\ \A c, e \in DOMAIN clusters :
         (c # e /\ BucketKey(clusters[c][1]) = BucketKey(clusters[e][1])) =>
           /\ \A a \in DOMAIN clusters[c], b \in DOMAIN clusters[e] :
                clusters[c][a].original_name # clusters[e][b].original_name
           /\ groups[c].matched_name # groups[e].matched_name

\* two listings named "500ml", one bucket: the name has no token left after
\* the quantity is removed, its similarity with itself is 0, and each listing
\* is a group of its own with the same matched_name
C30_TwoGroupsOneName ==
  /\ pc = "grouped"
  /\ Len(parsed) = 2
  /\ parsed[1].original_name = N.Only500ml
  /\ parsed[2].original_name = N.Only500ml
  /\ parsed[1].store # parsed[2].store
  /\ BucketKey(parsed[1]) = BucketKey(parsed[2])
  /\ SimilarityOf(N.Only500ml, N.Only500ml) = <<0, 1>>
  /\ clusters = << <<parsed[1]>>, <<parsed[2]>> >>
  /\ Len(groups) = 2
  /\ groups[1].matched_name = N.Only500ml
  /\ groups[2].matched_name = N.Only500ml

\* a name with tokens has similarity 1 with itself and its two listings are
\* one group
C30_SameNameTogether ==
  /\ pc = "grouped"
  /\ Len(parsed) = 2
  /\ parsed[1].original_name = N.AinCupBox
  /\ parsed[2].original_name = N.AinCupBox
  /\ BucketKey(parsed[1]) = BucketKey(parsed[2])
  /\ SimilarityOf(N.AinCupBox, N.AinCupBox) = <<1, 1>>
  /\ Len(clusters) = 1

====
